---- MODULE Spec2Model ----
(***************************************************************************)
(* Resilient access layer of the URL shortener: the write-behind click     *)
(* reconciler (ClickSyncService), the fail-soft cache store (CacheService),*)
(* the circuit breaker (CircuitBreaker) and the tiered access coordinator  *)
(* (ResilientDatabaseService, UrlService.getOriginalUrl).                  *)
(*                                                                         *)
(* The specifications share the stores:                                    *)
(*   SpecSync   redirect-time counter increments interleaved with          *)
(*              Reconciler cycles (initial run and periodic run);          *)
(*   SpecRetry  the same with cycles that keep running, under fairness;    *)
(*   SpecCoord  coordinator requests through the database and cache        *)
(*              breakers, with a clock and the breakers' health polls;     *)
(*   SpecBreaker one CircuitBreaker on its own;                            *)
(*   SpecRecover the same kept in use, under fairness;                     *)
(*   SpecInFlight the same with an operation in flight across other steps; *)
(*   SpecUrlService UrlService.createShortUrl over the coordinator;        *)
(*   SpecCache  the data methods of CacheService on their own;             *)
(*   SpecRegistry the CircuitBreakerManager catalog.                       *)
(***************************************************************************)
EXTENDS Integers, Sequences, FiniteSets, TLC

\* ------------------------------------------------------------------ bounds
MaxClicks == 3        \* increments applied (all shortIds) in one behaviour
MaxRuns == 2          \* Reconciler cycles started in one behaviour
MaxBatchSize == 2     \* options.batchSize is drawn from 1..MaxBatchSize
MaxSuccessCount == 2  \* requests are admitted while a breaker's successCount is below
MaxFailureCount == 6  \* requests are admitted while a breaker's failureCount is below
MaxTicks == 2         \* clock ticks in one behaviour of a breaker on its own
MaxCoordTicks == 1    \* clock ticks in one behaviour of the coordinator

\* ------------------------------------------------------------ value spaces
Ids == {"a", "b"}     \* shortUrlIds
Null == "null"        \* JavaScript null / a missing key
Urls == {"u", "v"}    \* originalUrls
\* no degraded record under url:<id>
NoData == [exists |-> FALSE, originalUrl |-> Null, clickCount |-> 0, source |-> "none"]
\* no row with that shortUrlId in table urls
NoRow == [exists |-> FALSE, originalUrl |-> Null, clickCount |-> 0]
ReqIds == {"a"}       \* shortUrlIds requested through the coordinator
Slots == {"initial", "periodic"}   \* the two call sites of syncClickCounts in start()

UrlOf == [id \in Ids |-> IF id = "a" THEN "u" ELSE "v"]

Min(x, y) == IF x < y THEN x ELSE y

VARIABLES
    rows,          \* durable store, table urls: [Ids -> NoRow or a row]
    clicks,        \* cache keys clicks:<id>; 0 stands for an absent key
    mapping,       \* cache keys shortUrl:<id>
    degraded,      \* cache keys url:<id> (degraded records)
    isConnected,   \* CacheService.isConnected
    isRunning,     \* ClickSyncService.isRunning
    syncInterval,  \* ClickSyncService.syncInterval is set
    batchSize,     \* ClickSyncService.options.batchSize
    cyc,           \* per call site: the syncClickCounts invocation in flight
    runs,          \* cycles started so far
    recorded,      \* history: increments applied to clicks:<id>
    faulted,       \* history: a store call failed, was skipped, or the process crashed
    skipped,       \* history: ids committed by a batch whose key delete did not happen
    reapplied,     \* history: ids of skipped committed again by a later batch
    breakers,      \* CircuitBreakerManager.breakers: name -> CircuitBreaker
    now,           \* Date.now(), in ms
    lastOp         \* history: the coordinator request completed last and its outcome

vars == <<rows, clicks, mapping, degraded, isConnected, isRunning, syncInterval,
          batchSize, cyc, runs, recorded, faulted, skipped, reapplied,
          breakers, now, lastOp>>

storeVars == <<rows, clicks, mapping, degraded, isConnected>>
syncVars == <<isRunning, syncInterval, batchSize, cyc, runs, skipped, reapplied>>
coordVars == <<breakers, now, lastOp>>

\* ------------------------------------------------------------ durable store
NewRow(url) == [exists |-> TRUE, originalUrl |-> url, clickCount |-> 0]

HasRow(r, id) == r[id].exists

ClickCount(r, id) == IF HasRow(r, id) THEN r[id].clickCount ELSE 0

\* db.Url.increment('clickCount', {by, where: {shortUrlId}}): an UPDATE that
\* changes the matching row and matches nothing when there is no such row.
DbIncrement(r, id, by) ==
    IF HasRow(r, id) THEN [r EXCEPT ![id].clickCount = @ + by] ELSE r

\* ------------------------------------------------------- cache store helpers
\* CacheService.increment: INCRBY when connected and the call succeeds,
\* otherwise the stored data is untouched and 0 is returned.
CacheIncrement(c, id, ok) == IF ok THEN [c EXCEPT ![id] = @ + 1] ELSE c

\* getClickCountKeys: the clicks:* keys present, in some order; [] when the
\* store cannot be reached.
ClickCountKeys(c, ok) ==
    IF ok THEN {q \in [1..Cardinality({id \in Ids : c[id] > 0}) -> {id \in Ids : c[id] > 0}] :
                    \A i, j \in DOMAIN q : i # j => q[i] # q[j]}
    ELSE {<<>>}

\* getBatchClickCounts: shortUrlId -> integer for the keys asked, 0 for a key
\* that is absent; the empty object when the store cannot be reached.
BatchClickCounts(c, keys, ok) ==
    IF ok THEN [id \in {keys[i] : i \in DOMAIN keys} |-> c[id]] ELSE <<>>

\* deleteClickCounts: DEL of the keys given; nothing when the store cannot be
\* reached.
DeleteClickCounts(c, keys, ok) ==
    IF ok THEN [id \in Ids |-> IF id \in {keys[i] : i \in DOMAIN keys} THEN 0 ELSE c[id]]
    ELSE c

\* ------------------------------------------------------------ CircuitBreaker
DEFAULT_CONFIGS ==
    [database |-> [failureThreshold |-> 5, successThreshold |-> 2, timeout |-> 30000,
                   resetTimeout |-> 60000, monitoringWindow |-> 60000,
                   healthCheckInterval |-> 10000],
     cache    |-> [failureThreshold |-> 3, successThreshold |-> 2, timeout |-> 15000,
                   resetTimeout |-> 30000, monitoringWindow |-> 30000,
                   healthCheckInterval |-> 5000],
     external |-> [failureThreshold |-> 3, successThreshold |-> 1, timeout |-> 20000,
                   resetTimeout |-> 60000, monitoringWindow |-> 60000,
                   healthCheckInterval |-> 15000]]

BreakerNames == {"database", "cache"}

\* new CircuitBreaker(name, config, healthCheck). healthCheckPending: a call of
\* healthCheck made by the interval callback has not settled yet. admitted:
\* the state in which an execute started the operation it is still awaiting,
\* "none" when no operation is in flight.
NewBreaker(config, hasHealthCheck) ==
    [state |-> "CLOSED", failureCount |-> 0, successCount |-> 0, lastFailureTime |-> 0,
     nextAttemptTime |-> 0, failures |-> <<>>, healthCheckTimer |-> FALSE,
     healthCheckPending |-> FALSE, config |-> config, healthCheck |-> hasHealthCheck,
     admitted |-> "none"]

\* Mutant of cleanOldFailures: nothing is pruned.
cleanOldFailures_KeepAll(b, t) == b

\* cleanOldFailures at time t
cleanOldFailures(b, t) ==
    LET cutoff == t - b.config.monitoringWindow
        Recent(ts) == ts > cutoff
    IN [b EXCEPT !.failures = SelectSeq(@, Recent)]

\* Mutant of shouldOpenCircuit: one failure more than the threshold is needed.
shouldOpenCircuit_Strict(b) == Len(b.failures) > b.config.failureThreshold

shouldOpenCircuit(b) == Len(b.failures) >= b.config.failureThreshold

stopHealthChecking(b) == [b EXCEPT !.healthCheckTimer = FALSE]

startHealthChecking(b) ==
    IF ~b.healthCheck \/ b.config.healthCheckInterval = 0 THEN b
    ELSE [stopHealthChecking(b) EXCEPT !.healthCheckTimer = TRUE]

openCircuit(b, t) ==
    startHealthChecking([b EXCEPT !.state = "OPEN", !.successCount = 0,
                                  !.nextAttemptTime = t + b.config.timeout])

\* Mutant of halfOpenCircuit: the health-check timer is left running.
halfOpenCircuit_KeepsPolling(b) == [b EXCEPT !.state = "HALF_OPEN", !.successCount = 0]

halfOpenCircuit(b) ==
    stopHealthChecking([b EXCEPT !.state = "HALF_OPEN", !.successCount = 0])

\* Mutant of closeCircuit: the failure window is kept.
closeCircuit_KeepsWindow(b) ==
    stopHealthChecking([b EXCEPT !.state = "CLOSED", !.failureCount = 0, !.successCount = 0])

\* Mutant of closeCircuit: the health-check timer is left running.
closeCircuit_KeepsPolling(b) ==
    [b EXCEPT !.state = "CLOSED", !.failureCount = 0, !.successCount = 0, !.failures = <<>>]

closeCircuit(b) ==
    stopHealthChecking([b EXCEPT !.state = "CLOSED", !.failureCount = 0,
                                 !.successCount = 0, !.failures = <<>>])

\* Mutant of checkState: the elapsed retry time is not looked at.
checkState_Never(b, t) == b

checkState(b, t) ==
    IF b.state = "OPEN" /\ t >= b.nextAttemptTime THEN halfOpenCircuit(b) ELSE b

\* Mutant of onSuccess: a success while CLOSED keeps the failure window.
onSuccess_KeepsWindow(b) ==
    LET b1 == [b EXCEPT !.successCount = @ + 1]
    IN IF b1.state = "HALF_OPEN"
       THEN IF b1.successCount >= b1.config.successThreshold THEN closeCircuit(b1) ELSE b1
       ELSE b1

onSuccess(b) ==
    LET b1 == [b EXCEPT !.successCount = @ + 1]
    IN IF b1.state = "HALF_OPEN"
       THEN IF b1.successCount >= b1.config.successThreshold THEN closeCircuit(b1) ELSE b1
       ELSE IF b1.state = "CLOSED"
            THEN [b1 EXCEPT !.failureCount = 0, !.failures = <<>>]
            ELSE b1

\* Mutant of onFailure: a failure in HALF_OPEN opens the breaker only when
\* the window holds failureThreshold failures.
onFailure_ThresholdOnly(b, t) ==
    LET b1 == cleanOldFailures([b EXCEPT !.failureCount = @ + 1, !.lastFailureTime = t,
                                         !.failures = Append(@, t)], t)
    IN IF shouldOpenCircuit(b1) THEN openCircuit(b1, t) ELSE b1

onFailure(b, t) ==
    LET b1 == cleanOldFailures([b EXCEPT !.failureCount = @ + 1, !.lastFailureTime = t,
                                         !.failures = Append(@, t)], t)
    IN IF b1.state = "CLOSED" /\ shouldOpenCircuit(b1) THEN openCircuit(b1, t)
       ELSE IF b1.state = "HALF_OPEN" THEN openCircuit(b1, t)
       ELSE b1

\* Mutant of reset: the breaker is closed but keeps its timer and counters.
reset_StateOnly(b) == [b EXCEPT !.state = "CLOSED"]

reset(b) == closeCircuit(b)

destroy(b) == stopHealthChecking(b)

\* ------------------------------------------------------ request outcomes
NoOp == [op |-> "none", id |-> Null, raised |-> "none", source |-> "none", url |-> Null,
         dbCalls |-> 0, stored |-> FALSE, count |-> 0, streak |-> 0, forgiven |-> 0]

\* ---------------------------------------------------------------- Reconciler
\* chunkArray: the i-th chunk of array for chunkSize.
NumChunks(array, chunkSize) == (Len(array) + chunkSize - 1) \div chunkSize

Chunk(array, chunkSize, i) ==
    SubSeq(array, (i - 1) * chunkSize + 1, Min(i * chunkSize, Len(array)))

IdleCycle == [pc |-> "idle", keys |-> <<>>, bi |-> 0, counts |-> <<>>,
              totalErrors |-> 0, visited |-> 0]

Batch(c) == Chunk(c.keys, batchSize, c.bi)

BatchIds(c) == {Batch(c)[i] : i \in DOMAIN Batch(c)}

\* Mutant of AfterBatch: a batch failure leaves the loop.
AfterBatch_Abort(c, failed) ==
    LET e == IF failed THEN c.totalErrors + 1 ELSE c.totalErrors
    IN IF c.bi < NumChunks(c.keys, batchSize) /\ ~failed
       THEN [c EXCEPT !.pc = "read", !.bi = @ + 1, !.counts = <<>>, !.totalErrors = e]
       ELSE [c EXCEPT !.pc = "done", !.counts = <<>>, !.totalErrors = e]

\* The for-loop of syncClickCounts after processBatch returned or threw: the
\* catch counts the error and the loop goes on with the next batch.
AfterBatch(c, failed) ==
    LET e == IF failed THEN c.totalErrors + 1 ELSE c.totalErrors
    IN IF c.bi < NumChunks(c.keys, batchSize)
       THEN [c EXCEPT !.pc = "read", !.bi = @ + 1, !.counts = <<>>, !.totalErrors = e]
       ELSE [c EXCEPT !.pc = "done", !.counts = <<>>, !.totalErrors = e]

\* Ids of the first n entries of batch whose count is > 0 (the increments issued).
Issued(batch, counts, n) == {batch[i] : i \in {j \in 1..n : counts[batch[j]] > 0}}

RECURSIVE IncrementEach(_, _, _)
IncrementEach(r, counts, S) ==
    IF S = {} THEN r
    ELSE LET id == CHOOSE x \in S : TRUE
         IN IncrementEach(DbIncrement(r, id, counts[id]), counts, S \ {id})

\* Mutant of TxnResult: the increments are issued outside the transaction, so
\* those done before the failure stay.
TxnResult_NoRollback(r, batch, counts, failAt) ==
    IF failAt = 0 THEN IncrementEach(r, counts, Issued(batch, counts, Len(batch)))
    ELSE IncrementEach(r, counts, Issued(batch, counts, failAt - 1))

\* The transaction of processBatch. failAt = 0: every increment and the commit
\* succeed; failAt in 1..Len(batch): the increment at that position throws;
\* failAt = Len(batch) + 1: the commit throws. A failure is rolled back.
TxnResult(r, batch, counts, failAt) ==
    IF failAt = 0 THEN IncrementEach(r, counts, Issued(batch, counts, Len(batch)))
    ELSE r

\* Mutant of start: no look at isRunning.
start_NoGuard ==
    /\ runs < MaxRuns
    /\ cyc["initial"].pc \in {"idle", "done"}
    /\ isRunning' = TRUE
    /\ syncInterval' = TRUE
    /\ cyc' = [cyc EXCEPT !["initial"] = [IdleCycle EXCEPT !.pc = "list"]]
    /\ runs' = runs + 1
    /\ UNCHANGED <<coordVars, storeVars, batchSize, recorded, faulted, skipped, reapplied>>

\* start(): already running -> warn and return; otherwise the immediate run
\* and the interval timer.
start ==
    IF isRunning THEN UNCHANGED vars
    ELSE /\ runs < MaxRuns
         /\ cyc["initial"].pc \in {"idle", "done"}
         /\ isRunning' = TRUE
         /\ syncInterval' = TRUE
         /\ cyc' = [cyc EXCEPT !["initial"] = [IdleCycle EXCEPT !.pc = "list"]]
         /\ runs' = runs + 1
         /\ UNCHANGED <<coordVars, storeVars, batchSize, recorded, faulted, skipped, reapplied>>

\* stop(): clears the timer; a cycle in flight is not touched.
stop ==
    IF ~isRunning THEN UNCHANGED vars
    ELSE /\ isRunning' = FALSE
         /\ syncInterval' = FALSE
         /\ UNCHANGED <<coordVars, storeVars, batchSize, cyc, runs, recorded, faulted, skipped, reapplied>>

\* The setInterval callback: one more syncClickCounts.
TimerTick ==
    /\ syncInterval
    /\ runs < MaxRuns
    /\ cyc["periodic"].pc \in {"idle", "done"}
    /\ cyc' = [cyc EXCEPT !["periodic"] = [IdleCycle EXCEPT !.pc = "list"]]
    /\ runs' = runs + 1
    /\ UNCHANGED <<coordVars, storeVars, isRunning, syncInterval, batchSize, recorded, faulted,
                   skipped, reapplied>>

\* syncClickCounts up to the batch loop: list the keys, return when none.
ListKeys(s) ==
    /\ cyc[s].pc = "list"
    /\ \E ok \in BOOLEAN :
         /\ ok => isConnected
         /\ \E keys \in ClickCountKeys(clicks, ok) :
              cyc' = [cyc EXCEPT ![s] =
                        IF keys = <<>> THEN [@ EXCEPT !.pc = "done"]
                        ELSE [@ EXCEPT !.pc = "read", !.keys = keys, !.bi = 1]]
         /\ faulted' = (faulted \/ ~ok)
    /\ UNCHANGED <<coordVars, storeVars, isRunning, syncInterval, batchSize, runs, recorded,
                   skipped, reapplied>>

\* processBatch: read the batch's counters; nothing read -> return 0.
ReadCounts(s) ==
    /\ cyc[s].pc = "read"
    /\ \E ok \in BOOLEAN :
         /\ ok => isConnected
         /\ LET counts == BatchClickCounts(clicks, Batch(cyc[s]), ok)
                c == [cyc[s] EXCEPT !.visited = @ + 1]
            IN cyc' = [cyc EXCEPT ![s] =
                         IF DOMAIN counts = {} THEN AfterBatch(c, FALSE)
                         ELSE [c EXCEPT !.pc = "txn", !.counts = counts]]
         /\ faulted' = (faulted \/ ~ok)
    /\ UNCHANGED <<coordVars, storeVars, isRunning, syncInterval, batchSize, runs, recorded,
                   skipped, reapplied>>

\* processBatch: open the transaction, issue the increments, commit; any
\* failure rolls back and is thrown to the loop of syncClickCounts.
\* failAt = -1: db.sequelize.transaction() itself throws.
RunTransaction(s) ==
    /\ cyc[s].pc = "txn"
    /\ LET c == cyc[s]
           batch == Batch(c)
       IN \E failAt \in -1..(Len(batch) + 1) :
            /\ failAt \in 1..Len(batch) => c.counts[batch[failAt]] > 0
            /\ rows' = IF failAt = -1 THEN rows ELSE TxnResult(rows, batch, c.counts, failAt)
            /\ cyc' = [cyc EXCEPT ![s] =
                         IF failAt = 0 THEN [c EXCEPT !.pc = "delete"] ELSE AfterBatch(c, TRUE)]
            /\ faulted' = (faulted \/ failAt # 0)
            /\ reapplied' = IF failAt = 0
                            THEN reapplied \cup (skipped \cap Issued(batch, c.counts, Len(batch)))
                            ELSE reapplied
    /\ UNCHANGED <<coordVars, clicks, mapping, degraded, isConnected, isRunning, syncInterval,
                   batchSize, runs, recorded, skipped>>

\* processBatch after the commit: delete the batch's keys from the cache.
DeleteKeys(s) ==
    /\ cyc[s].pc = "delete"
    /\ LET c == cyc[s]
           batch == Batch(c)
       IN \E ok \in BOOLEAN :
            /\ ok => isConnected
            /\ clicks' = DeleteClickCounts(clicks, batch, ok)
            /\ cyc' = [cyc EXCEPT ![s] = AfterBatch(c, FALSE)]
            /\ skipped' = IF ok THEN skipped \ BatchIds(c)
                          ELSE skipped \cup Issued(batch, c.counts, Len(batch))
            /\ faulted' = (faulted \/ ~ok)
    /\ UNCHANGED <<coordVars, rows, mapping, degraded, isConnected, isRunning, syncInterval,
                   batchSize, runs, recorded, reapplied>>

\* The process dies and is started again: every cycle in flight is gone, the
\* stores keep their contents.
Crash ==
    /\ \E s \in Slots : cyc[s].pc \notin {"idle", "done"}
    /\ cyc' = [s \in Slots |-> IdleCycle]
    /\ isRunning' = FALSE
    /\ syncInterval' = FALSE
    /\ skipped' = skipped \cup
                  UNION {Issued(Batch(cyc[s]), cyc[s].counts, Len(Batch(cyc[s]))) :
                            s \in {t \in Slots : cyc[t].pc = "delete"}}
    /\ faulted' = TRUE
    /\ UNCHANGED <<coordVars, storeVars, batchSize, runs, recorded, reapplied>>

RECURSIVE SumOver(_, _)
SumOver(f, S) ==
    IF S = {} THEN 0
    ELSE LET x == CHOOSE y \in S : TRUE IN f[x] + SumOver(f, S \ {x})

TotalRecorded == SumOver(recorded, Ids)

\* cacheService.incrementUrlClicks(shortId), the redirect-time increment.
IncrementUrlClicks(id) ==
    /\ TotalRecorded < MaxClicks
    /\ \E ok \in BOOLEAN :
         /\ ok => isConnected
         /\ clicks' = CacheIncrement(clicks, id, ok)
         /\ recorded' = IF ok THEN [recorded EXCEPT ![id] = @ + 1] ELSE recorded
    /\ UNCHANGED <<coordVars, rows, mapping, degraded, isConnected, syncVars, faulted>>

\* redisClient 'connect' event.
RedisConnect ==
    /\ ~isConnected
    /\ isConnected' = TRUE
    /\ UNCHANGED <<coordVars, rows, clicks, mapping, degraded, syncVars, recorded, faulted>>

\* redisClient 'error' / 'close' event.
RedisClose ==
    /\ isConnected
    /\ isConnected' = FALSE
    /\ UNCHANGED <<coordVars, rows, clicks, mapping, degraded, syncVars, recorded, faulted>>

\* new ResilientDatabaseService(): both breakers from the registry, CLOSED.
InitCoordVars ==
    /\ breakers = [n \in BreakerNames |-> NewBreaker(DEFAULT_CONFIGS[n], TRUE)]
    /\ now = 0
    /\ lastOp = NoOp

InitSync ==
    /\ clicks = [id \in Ids |-> 0]
    /\ mapping = [id \in Ids |-> Null]
    /\ degraded = [id \in Ids |-> NoData]
    /\ isConnected = TRUE
    /\ rows \in {r \in [Ids -> {NoRow} \cup {NewRow(u) : u \in Urls}] :
                    /\ HasRow(r, "a")
                    /\ \A id \in Ids : HasRow(r, id) => r[id].originalUrl = UrlOf[id]}
    /\ isRunning = FALSE
    /\ syncInterval = FALSE
    /\ batchSize \in 1..MaxBatchSize
    /\ cyc = [s \in Slots |-> IdleCycle]
    /\ runs = 0
    /\ recorded = [id \in Ids |-> 0]
    /\ faulted = FALSE
    /\ skipped = {}
    /\ reapplied = {}
    /\ InitCoordVars

NextSync ==
    \/ start
    \/ stop
    \/ TimerTick
    \/ \E s \in Slots : ListKeys(s)
    \/ \E s \in Slots : ReadCounts(s)
    \/ \E s \in Slots : RunTransaction(s)
    \/ \E s \in Slots : DeleteKeys(s)
    \/ Crash
    \/ \E id \in Ids : IncrementUrlClicks(id)

SpecSync == InitSync /\ [][NextSync]_vars

\* ------------------------------------------- the Reconciler that keeps running
\* The setInterval callback, however many cycles have run before.
IntervalCallback ==
    /\ syncInterval
    /\ cyc["periodic"].pc \in {"idle", "done"}
    /\ cyc' = [cyc EXCEPT !["periodic"] = [IdleCycle EXCEPT !.pc = "list"]]
    /\ UNCHANGED <<coordVars, storeVars, isRunning, syncInterval, batchSize, runs, recorded,
                   faulted, skipped, reapplied>>

\* The next await of the cycle at call site s settles.
CycleStep(s) == ListKeys(s) \/ ReadCounts(s) \/ RunTransaction(s) \/ DeleteKeys(s)

\* A store call of the cycle at call site s fails in this step: the key
\* listing comes back empty although counters are pending, the counter read
\* gives nothing, the transaction throws, or the key delete does nothing.
StoreFault(s) ==
    \/ cyc[s].pc = "list" /\ cyc'[s].pc = "done" /\ \E id \in Ids : clicks[id] > 0
    \/ cyc[s].pc = "read" /\ cyc'[s].pc # "txn"
    \/ cyc[s].pc = "txn" /\ cyc'[s].pc # "delete"
    \/ cyc[s].pc = "delete" /\ cyc'[s] # cyc[s] /\ \E id \in BatchIds(cyc[s]) : clicks'[id] > 0

\* The stores are eventually available: once a store call has failed, no
\* later one does.
RetryStep(s) == CycleStep(s) /\ (faulted => ~StoreFault(s))

NextRetry ==
    \/ start
    \/ IntervalCallback
    \/ \E s \in Slots : RetryStep(s)
    \/ \E id \in Ids : IncrementUrlClicks(id)

\* Cycles keep running: start is called, the timer keeps firing, every await
\* settles.
SpecRetry ==
    /\ InitSync
    /\ [][NextRetry]_vars
    /\ WF_vars(start /\ ~isRunning)
    /\ WF_vars(IntervalCallback)
    /\ \A s \in Slots : WF_vars(RetryStep(s))

\* ------------------------------------------ cache store, key/value methods
\* CacheService.getShortUrl -> get(shortUrl:<id>): null on a miss, when not
\* connected and when the Redis call fails.
CacheGet(m, id, ok) == IF ok THEN m[id] ELSE Null

\* CacheService.get(url:<id>) followed by JSON.parse of a hit.
CacheGetData(d, id, ok) == IF ok THEN d[id] ELSE NoData

\* CacheService.set -> setex: no-op when not connected or the call fails.
CacheSet(m, id, v, ok) == IF ok THEN [m EXCEPT ![id] = v] ELSE m

\* getUrlClickCount: the pending counter, 0 when absent or unreachable.
UrlClickCount(c, id, ok) == IF ok THEN c[id] ELSE 0

\* The degraded record written by the fallback of createUrl.
FallbackRecord(url) ==
    [exists |-> TRUE, originalUrl |-> url, clickCount |-> 0, source |-> "cache_fallback"]

\* -------------------------------------------------- ResilientDatabaseService
Outcome(B, r, m, d, raised, source, url, dbCalls, stored, count) ==
    [breakers |-> B, rows |-> r, mapping |-> m, degraded |-> d, raised |-> raised,
     source |-> source, url |-> url, dbCalls |-> dbCalls, stored |-> stored,
     count |-> count]

\* Mutant of cacheUrlAsync: a mirror write that does not reach the cache
\* store is recorded as a failure of the cache breaker.
cacheUrlAsync_CountsFailure(B, m, id, url, t, ok) ==
    LET cb == checkState(B["cache"], t)
    IN IF cb.state = "OPEN"
       THEN [breakers |-> [B EXCEPT !["cache"] = cb], mapping |-> m]
       ELSE [breakers |-> [B EXCEPT !["cache"] = IF ok THEN onSuccess(cb)
                                                  ELSE onFailure(cb, t)],
             mapping |-> CacheSet(m, id, url, ok)]

\* Mutant of cacheUrlAsync: a mirror write that fails is charged to the
\* database breaker.
cacheUrlAsync_ChargesDatabase(B, m, id, url, t, ok) ==
    LET cb == checkState(B["cache"], t)
    IN IF cb.state = "OPEN"
       THEN [breakers |-> [B EXCEPT !["cache"] = cb], mapping |-> m]
       ELSE [breakers |-> [B EXCEPT !["cache"] = onSuccess(cb),
                                    !["database"] = IF ok THEN @ ELSE onFailure(@, t)],
             mapping |-> CacheSet(m, id, url, ok)]

\* cacheUrlAsync: cacheShortUrl through the cache breaker; a rejection is logged.
cacheUrlAsync(B, m, id, url, t, ok) ==
    LET cb == checkState(B["cache"], t)
    IN IF cb.state = "OPEN"
       THEN [breakers |-> [B EXCEPT !["cache"] = cb], mapping |-> m]
       ELSE [breakers |-> [B EXCEPT !["cache"] = onSuccess(cb)],
             mapping |-> CacheSet(m, id, url, ok)]

\* Mutant of urlExists: the failure of the lookup is not caught.
urlExists_Rethrow(B, r, m, d, url, t, dbOk) ==
    LET db0 == checkState(B["database"], t)
    IN IF db0.state = "OPEN"
       THEN Outcome([B EXCEPT !["database"] = db0], r, m, d, "none", "false", Null, 0, FALSE, 0)
       ELSE IF dbOk
            THEN Outcome([B EXCEPT !["database"] = onSuccess(db0)], r, m, d, "none",
                         IF \E id \in Ids : r[id].exists /\ r[id].originalUrl = url
                         THEN "true" ELSE "false", Null, 1, FALSE, 0)
            ELSE Outcome([B EXCEPT !["database"] = onFailure(db0, t)], r, m, d, "store",
                         "none", Null, 1, FALSE, 0)

\* urlExists: findOne by originalUrl through the database breaker; false from
\* the fallback and from the catch.
urlExists(B, r, m, d, url, t, dbOk) ==
    LET db0 == checkState(B["database"], t)
    IN IF db0.state = "OPEN"
       THEN Outcome([B EXCEPT !["database"] = db0], r, m, d, "none", "false", Null, 0, FALSE, 0)
       ELSE IF dbOk
            THEN Outcome([B EXCEPT !["database"] = onSuccess(db0)], r, m, d, "none",
                         IF \E id \in Ids : r[id].exists /\ r[id].originalUrl = url
                         THEN "true" ELSE "false", Null, 1, FALSE, 0)
            ELSE Outcome([B EXCEPT !["database"] = onFailure(db0, t)], r, m, d, "none",
                         "false", Null, 1, FALSE, 0)

\* Mutant of FallbackWrites: the plain id -> url mapping is not cached.
FallbackWrites_NoMapping(m, d, id, url, ok1, ok2) ==
    [mapping |-> m, degraded |-> CacheSet(d, id, FallbackRecord(url), ok1)]

\* The two cache writes of the fallback of createUrl: the degraded record
\* under url:<id> and the mapping under shortUrl:<id>.
FallbackWrites(m, d, id, url, ok1, ok2) ==
    [mapping |-> CacheSet(m, id, url, ok2),
     degraded |-> CacheSet(d, id, FallbackRecord(url), ok1)]

\* createUrl: insert through the database breaker, then the asynchronous
\* mirror; with the breaker OPEN the cache-only fallback.
createUrl(B, r, m, d, id, url, t, ok1, ok2, dbOk) ==
    LET db0 == checkState(B["database"], t)
        B0 == [B EXCEPT !["database"] = db0]
    IN IF db0.state = "OPEN"
       THEN LET cb == checkState(B0["cache"], t)
            IN IF cb.state = "OPEN"
               THEN Outcome([B0 EXCEPT !["cache"] = cb], r, m, d, "open", "none", Null, 0,
                            FALSE, 0)
               ELSE LET w == FallbackWrites(m, d, id, url, ok1, ok2)
                    IN Outcome([B0 EXCEPT !["cache"] = onSuccess(cb)], r, w.mapping,
                               w.degraded, "none", "cache_fallback", url, 0, ok1 /\ ok2, 0)
       ELSE IF dbOk /\ ~r[id].exists /\ ~\E j \in Ids : r[j].exists /\ r[j].originalUrl = url
            THEN LET a == cacheUrlAsync([B0 EXCEPT !["database"] = onSuccess(db0)],
                                        m, id, url, t, ok1)
                 IN Outcome(a.breakers, [r EXCEPT ![id] = NewRow(url)], a.mapping, d,
                            "none", "database", url, 1, FALSE, 0)
            ELSE Outcome([B0 EXCEPT !["database"] = onFailure(db0, t)], r, m, d, "store",
                         "none", Null, 1, FALSE, 0)

\* Mutant of CacheHit: the result of the mapping cache is ignored.
CacheHit_Never(cached) == FALSE

\* getUrl, layer 1: if (cached)
CacheHit(cached) == cached # Null

\* Mutant of getUrlFallback: the degraded record is not consulted.
getUrlFallback_NoRecord(B, r, m, d, id, t, ok) ==
    LET cb == checkState(B["cache"], t)
    IN IF cb.state = "OPEN"
       THEN Outcome([B EXCEPT !["cache"] = cb], r, m, d, "none", "null", Null, 0, FALSE, 0)
       ELSE Outcome([B EXCEPT !["cache"] = onSuccess(cb)], r, m, d, "none", "null", Null, 0,
                    FALSE, 0)

\* getUrl, layer 3: the degraded record read through the cache breaker.
getUrlFallback(B, r, m, d, id, t, ok) ==
    LET cb == checkState(B["cache"], t)
    IN IF cb.state = "OPEN"
       THEN Outcome([B EXCEPT !["cache"] = cb], r, m, d, "none", "null", Null, 0, FALSE, 0)
       ELSE LET data == CacheGetData(d, id, ok)
                B1 == [B EXCEPT !["cache"] = onSuccess(cb)]
            IN IF data.exists
               THEN Outcome(B1, r, m, d, "none", "cache_fallback", data.originalUrl, 0, FALSE, 0)
               ELSE Outcome(B1, r, m, d, "none", "null", Null, 0, FALSE, 0)

\* getUrl: mapping cache, then the durable store through the database breaker,
\* then the degraded record.
getUrl(B, r, m, d, id, t, ok1, ok2, dbOk) ==
    LET cb0 == checkState(B["cache"], t)
        cached == IF cb0.state = "OPEN" THEN Null ELSE CacheGet(m, id, ok1)
        B1 == [B EXCEPT !["cache"] = IF cb0.state = "OPEN" THEN cb0 ELSE onSuccess(cb0)]
    IN IF CacheHit(cached)
       THEN Outcome(B1, r, m, d, "none", "cache", cached, 0, FALSE, 0)
       ELSE LET db0 == checkState(B1["database"], t)
                B2 == [B1 EXCEPT !["database"] = db0]
            IN IF db0.state = "OPEN" THEN getUrlFallback(B2, r, m, d, id, t, ok2)
               ELSE IF ~dbOk
                    THEN Outcome([B2 EXCEPT !["database"] = onFailure(db0, t)], r, m, d,
                                 "store", "none", Null, 1, FALSE, 0)
                    ELSE IF ~r[id].exists
                         THEN Outcome([B2 EXCEPT !["database"] = onSuccess(db0)], r, m, d,
                                      "none", "null", Null, 1, FALSE, 0)
                         ELSE LET a == cacheUrlAsync(
                                           [B2 EXCEPT !["database"] = onSuccess(db0)],
                                           m, id, r[id].originalUrl, t, ok2)
                              IN Outcome(a.breakers, r, a.mapping, d, "none", "database",
                                         r[id].originalUrl, 1, FALSE, 0)

\* Mutant of ReportedCount: the pending counter is left out.
ReportedCount_DurableOnly(durable, pending) == durable

\* clickCount: urlRecord.clickCount + pendingClicks
ReportedCount(durable, pending) == durable + pending

\* getUrlStats: the row plus the pending counter; with the database breaker
\* OPEN the degraded record plus the pending counter, else the sentinel.
getUrlStats(B, r, m, d, c, id, t, ok1, ok2, dbOk) ==
    LET db0 == checkState(B["database"], t)
        B0 == [B EXCEPT !["database"] = db0]
        cb == checkState(B0["cache"], t)
        Bc == [B0 EXCEPT !["cache"] = IF cb.state = "OPEN" THEN cb ELSE onSuccess(cb)]
    IN IF db0.state = "OPEN"
       THEN IF cb.state = "OPEN"
            THEN Outcome(Bc, r, m, d, "none", "error_fallback", Null, 0, FALSE, 0)
            ELSE LET data == CacheGetData(d, id, ok1)
                 IN IF data.exists
                    THEN Outcome(Bc, r, m, d, "none", "cache_fallback", data.originalUrl, 0,
                                 FALSE,
                                 ReportedCount(data.clickCount, UrlClickCount(c, id, ok2)))
                    ELSE Outcome(Bc, r, m, d, "none", "error_fallback", Null, 0, FALSE, 0)
       ELSE IF ~dbOk
            THEN Outcome([B0 EXCEPT !["database"] = onFailure(db0, t)], r, m, d, "store",
                         "none", Null, 1, FALSE, 0)
            ELSE IF ~r[id].exists
                 THEN Outcome([B0 EXCEPT !["database"] = onSuccess(db0)], r, m, d, "none",
                              "null", Null, 1, FALSE, 0)
                 ELSE Outcome([Bc EXCEPT !["database"] = onSuccess(db0)], r, m, d, "none",
                              "database", r[id].originalUrl, 1, FALSE,
                              ReportedCount(r[id].clickCount,
                                  IF cb.state = "OPEN" THEN 0 ELSE UrlClickCount(c, id, ok1)))

\* ------------------------------------------------------- coordinator requests
\* A request is admitted while the breakers' counters are within the bounds.
WithinBudget ==
    \A n \in DOMAIN breakers :
        /\ breakers[n].successCount < MaxSuccessCount
        /\ breakers[n].failureCount < MaxFailureCount

\* What a completed request leaves in lastOp.
Completed(op, id, o) ==
    [op |-> op, id |-> id, raised |-> o.raised, source |-> o.source, url |-> o.url,
     dbCalls |-> o.dbCalls, stored |-> o.stored, count |-> o.count, streak |-> 0,
     forgiven |-> 0]

Apply(o) ==
    /\ breakers' = o.breakers
    /\ rows' = o.rows
    /\ mapping' = o.mapping
    /\ degraded' = o.degraded

\* dbOk: whether the durable lookup succeeds.
UrlExistsWith(url, dbOk) ==
    /\ WithinBudget
    /\ LET o == urlExists(breakers, rows, mapping, degraded, url, now, dbOk)
       IN /\ Apply(o)
          /\ lastOp' = Completed("exists", Null, o)
    /\ UNCHANGED <<clicks, isConnected, syncVars, recorded, faulted, now>>

UrlExists(url) == \E dbOk \in BOOLEAN : UrlExistsWith(url, dbOk)

\* dbOk, ok1, ok2: whether the durable insert and the cache writes succeed.
CreateUrlWith(id, url, dbOk, ok1, ok2) ==
    /\ WithinBudget
    /\ (ok1 \/ ok2) => isConnected
    /\ LET o == createUrl(breakers, rows, mapping, degraded, id, url, now, ok1, ok2, dbOk)
       IN /\ Apply(o)
          /\ lastOp' = Completed("create", id, o)
    /\ UNCHANGED <<clicks, isConnected, syncVars, recorded, faulted, now>>

CreateUrl(id, url) ==
    \E dbOk, ok1, ok2 \in BOOLEAN : CreateUrlWith(id, url, dbOk, ok1, ok2)

\* UrlService.getOriginalUrl: getUrl, then the counter increment when a URL
\* was found. dbOk, ok1, ok2, ok3: whether the durable lookup, the two cache
\* calls of getUrl and the increment succeed.
GetOriginalUrlWith(id, dbOk, ok1, ok2, ok3) ==
    /\ WithinBudget
    /\ TotalRecorded < MaxClicks
    /\ (ok1 \/ ok2 \/ ok3) => isConnected
    /\ LET o == getUrl(breakers, rows, mapping, degraded, id, now, ok1, ok2, dbOk)
           found == o.raised = "none" /\ o.source # "null"
       IN /\ Apply(o)
          /\ lastOp' = Completed("get", id, o)
          /\ clicks' = IF found THEN CacheIncrement(clicks, id, ok3) ELSE clicks
          /\ recorded' = IF found /\ ok3 THEN [recorded EXCEPT ![id] = @ + 1]
                         ELSE recorded
    /\ UNCHANGED <<isConnected, syncVars, faulted, now>>

GetOriginalUrl(id) ==
    \E dbOk, ok1, ok2, ok3 \in BOOLEAN : GetOriginalUrlWith(id, dbOk, ok1, ok2, ok3)

\* UrlService.getUrlStats. dbOk, ok1, ok2: whether the durable lookup and the
\* two cache reads succeed.
GetUrlStatsWith(id, dbOk, ok1, ok2) ==
    /\ WithinBudget
    /\ (ok1 \/ ok2) => isConnected
    /\ LET o == getUrlStats(breakers, rows, mapping, degraded, clicks, id, now,
                            ok1, ok2, dbOk)
       IN /\ Apply(o)
          /\ lastOp' = Completed("stats", id, o)
    /\ UNCHANGED <<clicks, isConnected, syncVars, recorded, faulted, now>>

GetUrlStats(id) ==
    \E dbOk, ok1, ok2 \in BOOLEAN : GetUrlStatsWith(id, dbOk, ok1, ok2)

\* The setInterval callback of startHealthChecking fires and awaits
\* healthCheck.
HealthPoll(n) ==
    /\ breakers[n].healthCheckTimer
    /\ ~breakers[n].healthCheckPending
    /\ breakers' = [breakers EXCEPT ![n].healthCheckPending = TRUE]
    /\ UNCHANGED <<storeVars, syncVars, recorded, faulted, now, lastOp>>

\* The awaited healthCheck settles, whatever happened to the timer meanwhile:
\* a healthy answer moves the breaker to HALF_OPEN; an answer of false and a
\* rejection (isHealthy = FALSE for both) change nothing.
HealthPollSettledWith(n, isHealthy) ==
    /\ breakers[n].healthCheckPending
    /\ (n = "cache" /\ isHealthy) => isConnected
    /\ breakers' =
         [breakers EXCEPT ![n] =
             IF isHealthy THEN [halfOpenCircuit(@) EXCEPT !.healthCheckPending = FALSE]
             ELSE [@ EXCEPT !.healthCheckPending = FALSE]]
    /\ UNCHANGED <<storeVars, syncVars, recorded, faulted, now, lastOp>>

HealthPollSettled(n) == \E isHealthy \in BOOLEAN : HealthPollSettledWith(n, isHealthy)

TickMs == DEFAULT_CONFIGS["database"].timeout

\* Time passes while the coordinator serves requests.
CoordTick ==
    /\ now < MaxCoordTicks * TickMs
    /\ now' = now + TickMs
    /\ UNCHANGED <<storeVars, syncVars, recorded, faulted, breakers, lastOp>>

\* Time passes.
Tick ==
    /\ now < MaxTicks * TickMs
    /\ now' = now + TickMs
    /\ UNCHANGED <<storeVars, syncVars, recorded, faulted, breakers, lastOp>>

\* Rows that an earlier run of the service left in the durable store: none for
\* the ids requested for creation, one with a flushed click for the others.
StoredRows ==
    [id \in Ids |-> IF id \in ReqIds THEN NoRow
                    ELSE [NewRow("v") EXCEPT !.clickCount = 1]]

\* Pending counters that an earlier run left in the cache store: one click
\* not yet flushed for each id that has a row.
StoredClicks == [id \in Ids |-> IF id \in ReqIds THEN 0 ELSE 1]

InitCoord ==
    /\ rows = StoredRows
    /\ clicks = StoredClicks
    /\ mapping = [id \in Ids |-> Null]
    /\ degraded = [id \in Ids |-> NoData]
    /\ isConnected = FALSE
    /\ isRunning = FALSE
    /\ syncInterval = FALSE
    /\ batchSize = MaxBatchSize
    /\ cyc = [s \in Slots |-> IdleCycle]
    /\ runs = 0
    /\ recorded = StoredClicks
    /\ faulted = FALSE
    /\ skipped = {}
    /\ reapplied = {}
    /\ InitCoordVars

NextCoord ==
    \/ \E url \in Urls : UrlExists(url)
    \/ \E id \in ReqIds, url \in Urls : CreateUrl(id, url)
    \/ \E id \in ReqIds : GetOriginalUrl(id)
    \/ \E id \in Ids : GetUrlStats(id)
    \/ \E n \in BreakerNames : HealthPoll(n)
    \/ \E n \in BreakerNames : HealthPollSettled(n)
    \/ CoordTick
    \/ RedisConnect
    \/ RedisClose

SpecCoord == InitCoord /\ [][NextCoord]_vars

\* ------------------------------------------------- UrlService.createShortUrl
MAX_SHORT_ID_ATTEMPTS == 3

\* The short ids createShortId() returns in the attempts of one request.
Candidates == [1..MAX_SHORT_ID_ATTEMPTS -> Ids]

\* createUniqueShortId: up to MAX_SHORT_ID_ATTEMPTS generated ids, each looked
\* up with db.Url.findOne on the model itself; the first id without a row is
\* returned. lookupOk: whether the lookups succeed.
createUniqueShortId(r, cands, lookupOk) ==
    LET free == {i \in 1..MAX_SHORT_ID_ATTEMPTS : ~r[cands[i]].exists}
        first == CHOOSE i \in free : \A j \in free : i <= j
    IN IF ~lookupOk THEN [raised |-> "store", id |-> Null, dbCalls |-> 1]
       ELSE IF free = {}
            THEN [raised |-> "exhausted", id |-> Null, dbCalls |-> MAX_SHORT_ID_ATTEMPTS]
            ELSE [raised |-> "none", id |-> cands[first], dbCalls |-> first]

\* createShortUrl: urlExists through the coordinator; for a known URL the row
\* is read with db.Url.findOne and mirrored with cacheService.cacheShortUrl;
\* otherwise createUniqueShortId and the coordinator's createUrl. dbCalls
\* counts every access to the durable store, direct or through the breaker.
\* existsOk: whether the lookup of urlExists succeeds; dbOk: whether the
\* durable calls after it do (the direct lookups and the insert); ok1, ok2:
\* the cache writes (ok1 is the mirror of an existing row as well).
createShortUrl(B, r, m, d, url, t, cands, existsOk, dbOk, ok1, ok2) ==
    LET e == urlExists(B, r, m, d, url, t, existsOk)
        g == createUniqueShortId(r, cands, dbOk)
    IN IF e.source = "true"
       THEN IF ~dbOk
            THEN [o |-> Outcome(e.breakers, r, m, d, "store", "none", Null, e.dbCalls + 1,
                                FALSE, 0),
                  id |-> Null]
            ELSE LET x == CHOOSE id \in Ids : r[id].exists /\ r[id].originalUrl = url
                 IN [o |-> Outcome(e.breakers, r, CacheSet(m, x, url, ok1), d, "none",
                                   "existing", url, e.dbCalls + 1, FALSE, 0),
                     id |-> x]
       ELSE IF g.raised # "none"
            THEN [o |-> Outcome(e.breakers, r, m, d, g.raised, "none", Null,
                                e.dbCalls + g.dbCalls, FALSE, 0),
                  id |-> Null]
            ELSE LET c == createUrl(e.breakers, r, m, d, g.id, url, t, ok1, ok2, dbOk)
                 IN [o |-> [c EXCEPT !.dbCalls = @ + e.dbCalls + g.dbCalls], id |-> g.id]

CreateShortUrlWith(url, cands, existsOk, dbOk, ok1, ok2) ==
    /\ WithinBudget
    /\ (ok1 \/ ok2) => isConnected
    /\ LET q == createShortUrl(breakers, rows, mapping, degraded, url, now, cands,
                               existsOk, dbOk, ok1, ok2)
       IN /\ Apply(q.o)
          /\ lastOp' = Completed("createShortUrl", q.id, q.o)
    /\ UNCHANGED <<clicks, isConnected, syncVars, recorded, faulted, now>>

CreateShortUrl(url) ==
    \E cands \in Candidates, existsOk, dbOk, ok1, ok2 \in BOOLEAN :
        CreateShortUrlWith(url, cands, existsOk, dbOk, ok1, ok2)

\* Creation requests with the clock and the cache connection; the breakers
\* leave OPEN by the elapsed retry time.
NextUrlService ==
    \/ \E url \in Urls : CreateShortUrl(url)
    \/ CoordTick
    \/ RedisConnect
    \/ RedisClose

SpecUrlService == InitCoord /\ [][NextUrlService]_vars

\* ------------------------------------------- a breaker on its own: execute
\* Mutant of execute: an OPEN breaker raises the open error although a
\* fallback is given.
execute_IgnoresFallback(b, t, opOk, hasFallback) ==
    LET b0 == checkState(b, t)
    IN IF b0.state = "OPEN"
       THEN [breaker |-> b0, invoked |-> FALSE, result |-> "open_error"]
       ELSE IF opOk
            THEN [breaker |-> onSuccess(b0), invoked |-> TRUE, result |-> "value"]
            ELSE [breaker |-> onFailure(b0, t), invoked |-> TRUE, result |-> "error"]

\* CircuitBreaker.execute(operation, fallback?) at time t. opOk: the operation
\* resolves; hasFallback: a fallback is given. result: "value" of the
\* operation, "fallback", "error" (the operation's rejection, rethrown) or
\* "open_error" (CircuitBreakerOpenError).
execute(b, t, opOk, hasFallback) ==
    LET b0 == checkState(b, t)
    IN IF b0.state = "OPEN"
       THEN [breaker |-> b0, invoked |-> FALSE,
             result |-> IF hasFallback THEN "fallback" ELSE "open_error"]
       ELSE IF opOk
            THEN [breaker |-> onSuccess(b0), invoked |-> TRUE, result |-> "value"]
            ELSE [breaker |-> onFailure(b0, t), invoked |-> TRUE, result |-> "error"]

BreakerConfigs == DOMAIN DEFAULT_CONFIGS

\* What a caller of execute observes. streak: the successes in a row seen so
\* far while the breaker stayed HALF_OPEN. forgiven: the failures within the
\* monitoring window that the last success while CLOSED found recorded, kept
\* through the failure while CLOSED that follows it.
Executed(n, e) ==
    [NoOp EXCEPT !.op = "execute", !.id = n,
                 !.raised = IF e.result = "error" THEN "store"
                            ELSE IF e.result = "open_error" THEN "open" ELSE "none",
                 !.source = e.result,
                 !.dbCalls = IF e.invoked THEN 1 ELSE 0,
                 !.streak = IF e.result = "value" /\ e.breaker.state = "HALF_OPEN"
                            THEN (IF breakers[n].state = "HALF_OPEN" THEN lastOp.streak ELSE 0) + 1
                            ELSE 0,
                 !.forgiven = IF breakers[n].state # "CLOSED" THEN 0
                              ELSE IF e.result = "value"
                                   THEN Len(cleanOldFailures(breakers[n], now).failures)
                                   ELSE IF lastOp.op = "execute" /\ lastOp.source = "value"
                                        THEN lastOp.forgiven ELSE 0]

ExecuteWith(n, opOk, hasFallback) ==
    /\ n \in DOMAIN breakers
    /\ WithinBudget
    /\ LET e == execute(breakers[n], now, opOk, hasFallback)
       IN /\ breakers' = [breakers EXCEPT ![n] = e.breaker]
          /\ lastOp' = Executed(n, e)
    /\ UNCHANGED <<storeVars, syncVars, recorded, faulted, now>>

Execute(n) == \E opOk, hasFallback \in BOOLEAN : ExecuteWith(n, opOk, hasFallback)

\* CircuitBreakerManager.getCircuitBreaker(name, config, healthCheck?): one
\* breaker of one of the default configurations, with or without a health check.
InitBreaker ==
    /\ rows = StoredRows
    /\ clicks = StoredClicks
    /\ mapping = [id \in Ids |-> Null]
    /\ degraded = [id \in Ids |-> NoData]
    /\ isConnected = TRUE
    /\ isRunning = FALSE
    /\ syncInterval = FALSE
    /\ batchSize = MaxBatchSize
    /\ cyc = [s \in Slots |-> IdleCycle]
    /\ runs = 0
    /\ recorded = StoredClicks
    /\ faulted = FALSE
    /\ skipped = {}
    /\ reapplied = {}
    /\ \E n \in BreakerConfigs, hasHealthCheck \in BOOLEAN :
          breakers = [m \in {n} |-> NewBreaker(DEFAULT_CONFIGS[n], hasHealthCheck)]
    /\ now = 0
    /\ lastOp = NoOp

\* reset() of the breaker that exists, in whatever state it is.
Reset(n) ==
    /\ n \in DOMAIN breakers
    /\ breakers' = [breakers EXCEPT ![n] = reset(@)]
    /\ lastOp' = [NoOp EXCEPT !.op = "reset", !.id = n]
    /\ UNCHANGED <<storeVars, syncVars, recorded, faulted, now>>

\* destroy() of the breaker that exists; the object stays usable.
Destroy(n) ==
    /\ n \in DOMAIN breakers
    /\ breakers' = [breakers EXCEPT ![n] = destroy(@)]
    /\ lastOp' = [lastOp EXCEPT !.op = "destroy", !.id = n]
    /\ UNCHANGED <<storeVars, syncVars, recorded, faulted, now>>

\* The interval callback of the breaker that exists.
BreakerPoll(n) == n \in DOMAIN breakers /\ HealthPoll(n)

BreakerPollSettled(n) == n \in DOMAIN breakers /\ HealthPollSettled(n)

NextBreaker ==
    \/ \E n \in BreakerConfigs : Execute(n)
    \/ \E n \in BreakerConfigs : BreakerPoll(n)
    \/ \E n \in BreakerConfigs : BreakerPollSettled(n)
    \/ \E n \in BreakerConfigs : Reset(n)
    \/ \E n \in BreakerConfigs : Destroy(n)
    \/ Tick

SpecBreaker == InitBreaker /\ [][NextBreaker]_vars

\* ------------------------------- a breaker with an operation in flight
\* execute up to its await: checkState, and unless the breaker is OPEN the
\* operation is started. (An execute on an OPEN breaker does not await the
\* operation: it is the Execute step.)
AdmitStep(n) ==
    /\ n \in DOMAIN breakers
    /\ breakers[n].admitted = "none"
    /\ LET b0 == checkState(breakers[n], now)
       IN /\ b0.state # "OPEN"
          /\ breakers' = [breakers EXCEPT ![n] = [b0 EXCEPT !.admitted = b0.state]]
    /\ lastOp' = [NoOp EXCEPT !.op = "admit", !.id = n]
    /\ UNCHANGED <<storeVars, syncVars, recorded, faulted, now>>

\* execute after its await: the operation in flight settles and onSuccess or
\* onFailure runs on the breaker as it is by then.
CompleteWith(n, opOk) ==
    /\ n \in DOMAIN breakers
    /\ breakers[n].admitted # "none"
    /\ breakers' = [breakers EXCEPT ![n] =
                       [(IF opOk THEN onSuccess(@) ELSE onFailure(@, now))
                          EXCEPT !.admitted = "none"]]
    /\ lastOp' = [NoOp EXCEPT !.op = "complete", !.id = n,
                              !.raised = IF opOk THEN "none" ELSE "store",
                              !.source = IF opOk THEN "value" ELSE "error",
                              !.dbCalls = 1]
    /\ UNCHANGED <<storeVars, syncVars, recorded, faulted, now>>

Admit(n) == WithinBudget /\ AdmitStep(n)

Complete(n) == \E opOk \in BOOLEAN : CompleteWith(n, opOk)

NextInFlight ==
    \/ \E n \in BreakerConfigs : Execute(n)
    \/ \E n \in BreakerConfigs : Admit(n)
    \/ \E n \in BreakerConfigs : Complete(n)
    \/ \E n \in BreakerConfigs : BreakerPoll(n)
    \/ \E n \in BreakerConfigs : BreakerPollSettled(n)
    \/ \E n \in BreakerConfigs : Reset(n)
    \/ Tick

SpecInFlight == InitBreaker /\ [][NextInFlight]_vars

\* ------------------------------------------- a breaker that is kept in use
\* execute is called again. While CLOSED the call is admitted only as long
\* as successCount is within the bound.
Attempt(n) ==
    /\ n \in DOMAIN breakers
    /\ breakers[n].state = "CLOSED" => breakers[n].successCount < MaxSuccessCount
    /\ AdmitStep(n)

\* The attempted operation fails. Failures stop before the last tick of the
\* clock: from then on every attempted operation succeeds.
Fail(n) ==
    /\ now < MaxTicks * TickMs
    /\ n \in DOMAIN breakers
    /\ breakers[n].failureCount < MaxFailureCount
    /\ CompleteWith(n, FALSE)

\* The attempted operation succeeds.
Succeed(n) == CompleteWith(n, TRUE)

NextRecover ==
    \/ \E n \in BreakerConfigs : Attempt(n)
    \/ \E n \in BreakerConfigs : Fail(n)
    \/ \E n \in BreakerConfigs : Succeed(n)
    \/ \E n \in BreakerConfigs : BreakerPoll(n)
    \/ \E n \in BreakerConfigs : BreakerPollSettled(n)
    \/ Tick

\* execute keeps being called, attempted operations settle and time passes;
\* the polls may or may not fire.
SpecRecover ==
    /\ InitBreaker
    /\ [][NextRecover]_vars
    /\ WF_vars(Tick)
    /\ \A n \in BreakerConfigs : WF_vars(Attempt(n)) /\ WF_vars(Succeed(n))

\* ------------------------------------------- the cache store on its own
\* The data methods of CacheService on the shortUrl:<id> keys (m) and the
\* clicks:<id> keys (c). connected: isConnected when the method is entered;
\* callOk: the Redis command resolves. Each method is try { if (!isConnected)
\* return neutral; await command; return result } catch { return neutral }.
\* raised: the method rejects; value: what it resolves to; data: the keys
\* afterwards.
get(m, connected, callOk, id) ==
    IF connected /\ callOk THEN [raised |-> FALSE, value |-> m[id], data |-> m]
    ELSE [raised |-> FALSE, value |-> Null, data |-> m]

set(m, connected, callOk, id, v) ==
    IF connected /\ callOk
    THEN [raised |-> FALSE, value |-> Null, data |-> [m EXCEPT ![id] = v]]
    ELSE [raised |-> FALSE, value |-> Null, data |-> m]

delete(m, connected, callOk, id) ==
    IF connected /\ callOk
    THEN [raised |-> FALSE, value |-> TRUE, data |-> [m EXCEPT ![id] = Null]]
    ELSE [raised |-> FALSE, value |-> FALSE, data |-> m]

exists(m, connected, callOk, id) ==
    IF connected /\ callOk THEN [raised |-> FALSE, value |-> m[id] # Null, data |-> m]
    ELSE [raised |-> FALSE, value |-> FALSE, data |-> m]

\* Mutant of increment: a failed INCRBY is rethrown.
increment_Rethrow(c, connected, callOk, id) ==
    IF ~connected THEN [raised |-> FALSE, value |-> 0, data |-> c]
    ELSE IF callOk
         THEN [raised |-> FALSE, value |-> c[id] + 1, data |-> [c EXCEPT ![id] = @ + 1]]
         ELSE [raised |-> TRUE, value |-> 0, data |-> c]

increment(c, connected, callOk, id) ==
    IF connected /\ callOk
    THEN [raised |-> FALSE, value |-> c[id] + 1, data |-> [c EXCEPT ![id] = @ + 1]]
    ELSE [raised |-> FALSE, value |-> 0, data |-> c]

\* expire: whether the key was there to get the time to live; the time to
\* live itself is not kept by the model.
expire(m, connected, callOk, id) ==
    IF connected /\ callOk THEN [raised |-> FALSE, value |-> m[id] # Null, data |-> m]
    ELSE [raised |-> FALSE, value |-> FALSE, data |-> m]

\* healthCheck: pong: the answer to PING is 'PONG'.
healthCheck(connected, callOk, pong) ==
    [raised |-> FALSE, value |-> connected /\ callOk /\ pong]

\* What the caller of a cache method observes. source: "disconnected" when
\* the method returned before issuing the command, "failed" when the command
\* was issued and rejected, "redis" when it resolved.
Called(op, id, connected, callOk, r, url, count, flag) ==
    [NoOp EXCEPT !.op = op, !.id = id,
                 !.raised = IF r.raised THEN "store" ELSE "none",
                 !.source = IF ~connected THEN "disconnected"
                            ELSE IF callOk THEN "redis" ELSE "failed",
                 !.url = url, !.count = count, !.stored = flag]

cacheFrame == <<rows, degraded, isConnected, syncVars, recorded, faulted, breakers, now>>

\* getShortUrl(shortUrlId) -> get('shortUrl:' + id)
GetShortUrlWith(id, callOk) ==
    LET r == get(mapping, isConnected, callOk, id)
    IN /\ mapping' = r.data
       /\ lastOp' = Called("get", id, isConnected, callOk, r, r.value, 0, FALSE)
       /\ UNCHANGED <<cacheFrame, clicks>>

\* cacheShortUrl(shortUrlId, originalUrl) -> set('shortUrl:' + id, url)
CacheShortUrlWith(id, url, callOk) ==
    LET r == set(mapping, isConnected, callOk, id, url)
    IN /\ mapping' = r.data
       /\ lastOp' = Called("set", id, isConnected, callOk, r, Null, 0, FALSE)
       /\ UNCHANGED <<cacheFrame, clicks>>

\* deleteCachedShortUrl(shortUrlId) -> delete('shortUrl:' + id)
DeleteCachedShortUrlWith(id, callOk) ==
    LET r == delete(mapping, isConnected, callOk, id)
    IN /\ mapping' = r.data
       /\ lastOp' = Called("delete", id, isConnected, callOk, r, Null, 0, r.value)
       /\ UNCHANGED <<cacheFrame, clicks>>

\* exists('shortUrl:' + id)
ExistsWith(id, callOk) ==
    LET r == exists(mapping, isConnected, callOk, id)
    IN /\ mapping' = r.data
       /\ lastOp' = Called("exists", id, isConnected, callOk, r, Null, 0, r.value)
       /\ UNCHANGED <<cacheFrame, clicks>>

\* incrementUrlClicks(shortUrlId) -> increment('clicks:' + id)
IncrementWith(id, callOk) ==
    /\ clicks[id] < MaxClicks
    /\ LET r == increment(clicks, isConnected, callOk, id)
       IN /\ clicks' = r.data
          /\ lastOp' = Called("increment", id, isConnected, callOk, r, Null, r.value, FALSE)
    /\ UNCHANGED <<cacheFrame, mapping>>

\* expire('shortUrl:' + id, seconds)
ExpireWith(id, callOk) ==
    LET r == expire(mapping, isConnected, callOk, id)
    IN /\ mapping' = r.data
       /\ lastOp' = Called("expire", id, isConnected, callOk, r, Null, 0, r.value)
       /\ UNCHANGED <<cacheFrame, clicks>>

HealthCheckWith(callOk, pong) ==
    LET r == healthCheck(isConnected, callOk, pong)
    IN /\ lastOp' = Called("healthCheck", Null, isConnected, callOk /\ pong, r, Null, 0, r.value)
       /\ UNCHANGED <<cacheFrame, clicks, mapping>>

\* The CacheService singleton after construction: not connected until the
\* 'connect' event; the keys are those an earlier run left in the store.
InitCache ==
    /\ rows = StoredRows
    /\ clicks \in [Ids -> 0..1]
    /\ mapping \in [Ids -> {Null} \cup Urls]
    /\ degraded = [id \in Ids |-> NoData]
    /\ isConnected = FALSE
    /\ isRunning = FALSE
    /\ syncInterval = FALSE
    /\ batchSize = MaxBatchSize
    /\ cyc = [s \in Slots |-> IdleCycle]
    /\ runs = 0
    /\ recorded = clicks
    /\ faulted = FALSE
    /\ skipped = {}
    /\ reapplied = {}
    /\ breakers = [n \in BreakerNames |-> NewBreaker(DEFAULT_CONFIGS[n], TRUE)]
    /\ now = 0
    /\ lastOp = NoOp

NextCache ==
    \/ \E id \in Ids, callOk \in BOOLEAN : GetShortUrlWith(id, callOk)
    \/ \E id \in Ids, url \in Urls, callOk \in BOOLEAN : CacheShortUrlWith(id, url, callOk)
    \/ \E id \in Ids, callOk \in BOOLEAN : DeleteCachedShortUrlWith(id, callOk)
    \/ \E id \in Ids, callOk \in BOOLEAN : ExistsWith(id, callOk)
    \/ \E id \in Ids, callOk \in BOOLEAN : IncrementWith(id, callOk)
    \/ \E id \in Ids, callOk \in BOOLEAN : ExpireWith(id, callOk)
    \/ \E callOk, pong \in BOOLEAN : HealthCheckWith(callOk, pong)
    \/ RedisConnect
    \/ RedisClose

SpecCache == InitCache /\ [][NextCache]_vars

\* ------------------------------------------------- the breaker registry
\* CircuitBreakerManager.getCircuitBreaker(name, config?, healthCheck?) on
\* the catalog B. config: a key of DEFAULT_CONFIGS or "undefined".
Undefined == "undefined"

getCircuitBreaker(B, name, config, hasHealthCheck) ==
    IF name \notin DOMAIN B
    THEN LET breakerConfig == IF config = Undefined THEN DEFAULT_CONFIGS["external"]
                              ELSE DEFAULT_CONFIGS[config]
         IN [m \in DOMAIN B \cup {name} |->
                IF m = name THEN NewBreaker(breakerConfig, hasHealthCheck) ELSE B[m]]
    ELSE B

\* getAllStats: one entry per breaker of the catalog.
getAllStats(B) == Cardinality(DOMAIN B)

resetAll(B) == [m \in DOMAIN B |-> reset(B[m])]

\* CircuitBreakerManager.destroy: every breaker destroyed, the catalog
\* cleared.
destroyAll(B) == [m \in {} |-> destroy(B[m])]

\* The name of the configuration that breaker b runs with.
ConfigOf(b) == CHOOSE k \in BreakerConfigs : DEFAULT_CONFIGS[k] = b.config

\* A caller gets the breaker of name; lastOp keeps what it was handed:
\* source "created" or "existing", url the configuration in force, stored
\* whether a health check is in force.
GetCircuitBreaker(name, config, hasHealthCheck) ==
    /\ breakers' = getCircuitBreaker(breakers, name, config, hasHealthCheck)
    /\ lastOp' = [NoOp EXCEPT !.op = "getCircuitBreaker", !.id = name,
                              !.source = IF name \in DOMAIN breakers THEN "existing"
                                         ELSE "created",
                              !.url = ConfigOf(breakers'[name]),
                              !.stored = breakers'[name].healthCheck]
    /\ UNCHANGED <<storeVars, syncVars, recorded, faulted, now>>

GetAllStats ==
    /\ lastOp' = [lastOp EXCEPT !.count = getAllStats(breakers)]
    /\ UNCHANGED <<storeVars, syncVars, recorded, faulted, breakers, now>>

ResetAll ==
    /\ breakers' = resetAll(breakers)
    /\ UNCHANGED <<storeVars, syncVars, recorded, faulted, now, lastOp>>

DestroyAll ==
    /\ breakers' = destroyAll(breakers)
    /\ UNCHANGED <<storeVars, syncVars, recorded, faulted, now, lastOp>>

\* A holder of the breaker of name n runs an operation through it.
RegistryExecute(n) ==
    /\ n \in DOMAIN breakers
    /\ WithinBudget
    /\ \E opOk, hasFallback \in BOOLEAN :
          breakers' = [breakers EXCEPT ![n] = execute(@, now, opOk, hasFallback).breaker]
    /\ UNCHANGED <<storeVars, syncVars, recorded, faulted, now, lastOp>>

\* The CircuitBreakerManager singleton after construction: an empty catalog.
InitRegistry ==
    /\ rows = StoredRows
    /\ clicks = StoredClicks
    /\ mapping = [id \in Ids |-> Null]
    /\ degraded = [id \in Ids |-> NoData]
    /\ isConnected = TRUE
    /\ isRunning = FALSE
    /\ syncInterval = FALSE
    /\ batchSize = MaxBatchSize
    /\ cyc = [s \in Slots |-> IdleCycle]
    /\ runs = 0
    /\ recorded = StoredClicks
    /\ faulted = FALSE
    /\ skipped = {}
    /\ reapplied = {}
    /\ breakers = [m \in {} |-> NewBreaker(DEFAULT_CONFIGS["external"], FALSE)]
    /\ now = 0
    /\ lastOp = NoOp

NextRegistry ==
    \/ \E name \in BreakerNames, config \in BreakerConfigs \cup {Undefined},
          hasHealthCheck \in BOOLEAN : GetCircuitBreaker(name, config, hasHealthCheck)
    \/ GetAllStats
    \/ ResetAll
    \/ DestroyAll
    \/ \E n \in BreakerNames : RegistryExecute(n)

SpecRegistry == InitRegistry /\ [][NextRegistry]_vars

\* ------------------------------------------------------ Reconciler properties
TxnFailed(s) == cyc[s].pc = "txn" /\ cyc'[s].totalErrors = cyc[s].totalErrors + 1

\* C1: with both stores available and no crash, no increment is lost: durable
\* clickCount + pending counter of a shortId is at least the number of
\* increments applied to it, at every point of every interleaving.
C1_NoIncrementLost ==
    ~faulted => \A id \in Ids :
                   HasRow(rows, id) => ClickCount(rows, id) + clicks[id] >= recorded[id]

\* C3: once a delete was skipped after a commit and a later cycle has applied
\* the counter again, the durable count (with what is still pending) is never
\* less than the number of redirects recorded for that shortId.
C3_NeverUnderCount ==
    \A id \in reapplied :
        HasRow(rows, id) => ClickCount(rows, id) + clicks[id] >= recorded[id]

\* C4: when a step of a batch's transaction fails, none of the batch's
\* increments is visible in the durable store, the key delete is not reached
\* and every pending counter keeps its value.
C4_FailedBatchRolledBack ==
    [][\A s \in Slots :
          TxnFailed(s) => /\ rows' = rows
                          /\ clicks' = clicks
                          /\ cyc'[s].pc \in {"read", "done"}]_vars

\* A batch failed after a positive counter was read: the counter is still
\* pending and nothing of it is in the durable store.
C4_Witness ==
    \E s \in Slots : \E id \in Ids :
        /\ cyc[s].totalErrors >= 1
        /\ id \in {cyc[s].keys[i] : i \in DOMAIN cyc[s].keys}
        /\ runs = 1
        /\ HasRow(rows, id) /\ ClickCount(rows, id) = 0
        /\ clicks[id] = recorded[id] /\ clicks[id] > 0

\* C5: a failed batch does not stop the cycle: a cycle that has ended handed
\* every one of its batches to processBatch, whatever number of them failed.
C5_FailureIsolated ==
    \A s \in Slots :
        /\ cyc[s].totalErrors <= cyc[s].visited
        /\ cyc[s].pc = "done" => cyc[s].visited = NumChunks(cyc[s].keys, batchSize)

\* A cycle of two batches ended with the first batch failed and the second
\* one committed.
C5_Witness ==
    \E s \in Slots :
        /\ cyc[s].pc = "done" /\ runs = 1
        /\ NumChunks(cyc[s].keys, batchSize) = 2 /\ batchSize = 1
        /\ cyc[s].totalErrors = 1 /\ cyc[s].visited = 2
        /\ HasRow(rows, cyc[s].keys[1]) /\ ClickCount(rows, cyc[s].keys[1]) = 0
        /\ ClickCount(rows, cyc[s].keys[2]) > 0

\* C6: a batch's commit adds to each row exactly the counter value read for
\* it when that value is > 0 and nothing otherwise, and the delete after the
\* commit removes only keys whose value read was > 0.
C6_ExactlyPositiveKeys ==
    [][\A s \in Slots :
          LET c == cyc[s] IN
          /\ (c.pc = "txn" /\ cyc'[s].pc = "delete") =>
                \A id \in Ids :
                    HasRow(rows, id) =>
                        ClickCount(rows', id) = ClickCount(rows, id) +
                            (IF id \in BatchIds(c) /\ c.counts[id] > 0 THEN c.counts[id] ELSE 0)
          /\ (c.pc = "delete" /\ cyc'[s].pc \in {"read", "done"}) =>
                \A id \in Ids :
                    clicks'[id] # clicks[id] => (id \in BatchIds(c) /\ c.counts[id] > 0)]_vars

\* ----------------------------------------------------- coordinator properties
Request ==
    \/ \E url \in Urls : UrlExists(url)
    \/ \E id \in ReqIds, url \in Urls : CreateUrl(id, url)
    \/ \E id \in ReqIds : GetOriginalUrl(id)
    \/ \E id \in Ids : GetUrlStats(id)

Served == {"cache", "database", "cache_fallback"}

\* C2: every getOriginalUrl that returns an original URL increases the pending
\* click counter of that shortId by exactly 1, whatever the state of the cache.
C2_EveryServedClickCounted ==
    [][\A id \in ReqIds :
          (GetOriginalUrl(id) /\ lastOp'.raised = "none" /\ lastOp'.source \in Served)
              => clicks'[id] = clicks[id] + 1]_vars

\* C7 (as claimed): the get that follows a create answered from the cache
\* fallback, with the database breaker still OPEN and the cache available,
\* returns the same originalUrl with provenance "cache_fallback".
C7_GetAfterFallbackCreate ==
    [][\A id \in ReqIds : \A dbOk, ok2, ok3 \in BOOLEAN :
          ( /\ lastOp.op = "create" /\ lastOp.id = id
            /\ lastOp.source = "cache_fallback" /\ lastOp.stored
            /\ breakers["database"].state = "OPEN"
            /\ now < breakers["database"].nextAttemptTime
            /\ GetOriginalUrlWith(id, dbOk, TRUE, ok2, ok3) )
              => (lastOp'.url = lastOp.url /\ lastOp'.source = "cache_fallback")]_vars

\* C7 (amended): create with the database breaker OPEN returns provenance
\* "cache_fallback"; when its two cache writes took effect, the get that
\* follows it for the same shortId with the cache readable returns the same
\* originalUrl with provenance "cache".
C7_GetAfterFallbackCreateHitsCache ==
    [][/\ \A id \in ReqIds : \A dbOk, ok2, ok3 \in BOOLEAN :
            ( /\ lastOp.op = "create" /\ lastOp.id = id
              /\ lastOp.source = "cache_fallback" /\ lastOp.stored
              /\ GetOriginalUrlWith(id, dbOk, TRUE, ok2, ok3) )
                => (lastOp'.raised = "none" /\ lastOp'.url = lastOp.url
                    /\ lastOp'.source = "cache")
       /\ \A id \in ReqIds, url \in Urls :
            ( /\ breakers["database"].state = "OPEN"
              /\ now < breakers["database"].nextAttemptTime
              /\ CreateUrl(id, url) )
                => (lastOp'.raised = "none" /\ lastOp'.source = "cache_fallback"
                    /\ lastOp'.url = url)]_vars

\* A get answered "cache" for an id that exists only as a degraded record
\* written by the fallback of create, the database breaker being OPEN.
C7_Witness ==
    /\ lastOp.op = "get" /\ lastOp.source = "cache" /\ lastOp.id \in ReqIds
    /\ degraded[lastOp.id].exists /\ ~rows[lastOp.id].exists
    /\ degraded[lastOp.id].originalUrl = lastOp.url
    /\ breakers["database"].state = "OPEN"

\* C8: a durable-store failure never reaches the caller of
\* exists/create/get/getStats as an exception.
C8_StoreFailureAbsorbed == lastOp.raised # "store"

\* C9: a request made while the database breaker is OPEN completes with a
\* typed result and does not raise.
C9_OpenNeverRaises ==
    [][(breakers["database"].state = "OPEN" /\ Request) => lastOp'.raised = "none"]_vars

\* C10: a get that hits the mapping cache returns the cached URL with
\* provenance "cache" and makes no durable-store call: the rows and the
\* database breaker are not touched.
C10_CacheHitSkipsDatabase ==
    [][\A id \in ReqIds : \A dbOk, ok2, ok3 \in BOOLEAN :
          ( /\ lastOp'.op = "get"
            /\ mapping[id] # Null
            /\ breakers["cache"].state # "OPEN"
            /\ GetOriginalUrlWith(id, dbOk, TRUE, ok2, ok3) )
              => /\ lastOp'.raised = "none" /\ lastOp'.source = "cache"
                 /\ lastOp'.url = mapping[id] /\ lastOp'.dbCalls = 0
                 /\ rows' = rows
                 /\ breakers'["database"] = breakers["database"]]_vars

\* A get served from the mapping cache for an id that has a durable row.
C10_Witness ==
    /\ lastOp.op = "get" /\ lastOp.source = "cache" /\ lastOp.dbCalls = 0
    /\ lastOp.id \in ReqIds /\ rows[lastOp.id].exists
    /\ lastOp.url = rows[lastOp.id].originalUrl

\* The breaker n answers the next execute from its OPEN branch: OPEN still
\* after checkState.
StaysOpen(n) == checkState(breakers[n], now).state = "OPEN"

\* C11: get follows the tier order. On a mapping-cache miss (no entry, failed
\* read or cache breaker OPEN) with the database breaker letting the call
\* through, the durable store is asked: a row found gives provenance
\* "database", a successful lookup with no row gives null. With the database
\* breaker OPEN the store is not asked: a readable degraded record gives
\* provenance "cache_fallback", anything else null.
C11_TierOrder ==
    [][\A id \in ReqIds : \A dbOk, ok1, ok2, ok3 \in BOOLEAN :
          ( /\ lastOp'.op = "get"
            /\ (StaysOpen("cache") \/ ~ok1 \/ mapping[id] = Null)
            /\ GetOriginalUrlWith(id, dbOk, ok1, ok2, ok3) )
          => IF ~StaysOpen("database")
             THEN /\ lastOp'.dbCalls = 1
                  /\ dbOk => /\ lastOp'.raised = "none"
                             /\ lastOp'.source =
                                  (IF rows[id].exists THEN "database" ELSE "null")
                             /\ lastOp'.url =
                                  (IF rows[id].exists THEN rows[id].originalUrl ELSE Null)
             ELSE /\ lastOp'.dbCalls = 0
                  /\ lastOp'.raised = "none"
                  /\ IF ~StaysOpen("cache") /\ ok2 /\ degraded[id].exists
                     THEN /\ lastOp'.source = "cache_fallback"
                          /\ lastOp'.url = degraded[id].originalUrl
                     ELSE /\ lastOp'.source = "null"
                          /\ lastOp'.url = Null]_vars

\* A get answered from the degraded record while the database breaker is OPEN.
C11_Witness ==
    /\ lastOp.op = "get" /\ lastOp.source = "cache_fallback" /\ lastOp.dbCalls = 0
    /\ lastOp.id \in ReqIds /\ degraded[lastOp.id].exists
    /\ degraded[lastOp.id].originalUrl = lastOp.url
    /\ breakers["database"].state = "OPEN"

\* UrlController.getUrlStats behind asyncErrorHandler: the HTTP status sent
\* for what UrlService.getUrlStats returned or threw. Anything truthy is sent
\* as a successful stats result.
StatsStatus(raised, source) ==
    IF raised # "none" THEN 500
    ELSE IF source = "null" THEN 404
    ELSE 200

\* C12: the unavailable sentinel of getStats is never reported at the request
\* boundary as a successful stats result (nor as not found).
C12_SentinelNotSuccess ==
    (lastOp.op = "stats" /\ lastOp.source = "error_fallback")
        => StatsStatus(lastOp.raised, lastOp.source) \notin {200, 404}

\* C13: getStats with a successful durable read reports durable clickCount +
\* pending counter with provenance "database"; the pending counter counts as
\* 0 when its read fails or the cache breaker is OPEN, and the pending read
\* never makes the call fail.
C13_StatsSum ==
    [][\A id \in Ids : \A ok1, ok2 \in BOOLEAN :
          ( /\ lastOp'.op = "stats"
            /\ ~StaysOpen("database")
            /\ rows[id].exists
            /\ GetUrlStatsWith(id, TRUE, ok1, ok2) )
          => /\ lastOp'.raised = "none"
             /\ lastOp'.source = "database"
             /\ lastOp'.url = rows[id].originalUrl
             /\ lastOp'.count = rows[id].clickCount +
                                  (IF ok1 /\ ~StaysOpen("cache") THEN clicks[id] ELSE 0)]_vars

\* Stats served from the durable store for an id with a flushed count and a
\* pending counter, the cache store being reachable.
C13_Witness ==
    /\ lastOp.op = "stats" /\ lastOp.source = "database" /\ lastOp.raised = "none"
    /\ lastOp.id \in Ids /\ rows[lastOp.id].exists
    /\ rows[lastOp.id].clickCount > 0 /\ clicks[lastOp.id] > 0
    /\ lastOp.count = rows[lastOp.id].clickCount + clicks[lastOp.id]

\* C14: exists never raises; it returns the durable lookup's answer when the
\* lookup is made and succeeds, and false when the database breaker is OPEN
\* (no lookup made) or the lookup fails.
C14_ExistsNeverRaises ==
    [][\A url \in Urls : \A dbOk \in BOOLEAN :
          (lastOp'.op = "exists" /\ UrlExistsWith(url, dbOk))
          => /\ lastOp'.raised = "none"
             /\ lastOp'.dbCalls = (IF StaysOpen("database") THEN 0 ELSE 1)
             /\ lastOp'.source =
                  (IF ~StaysOpen("database") /\ dbOk
                      /\ \E id \in Ids : rows[id].exists /\ rows[id].originalUrl = url
                   THEN "true" ELSE "false")]_vars

\* exists answered false without a lookup, the database breaker being OPEN
\* and the durable store holding rows.
C14_Witness ==
    /\ lastOp.op = "exists" /\ lastOp.raised = "none" /\ lastOp.source = "false"
    /\ lastOp.dbCalls = 0
    /\ breakers["database"].state = "OPEN"
    /\ \E id \in Ids : rows[id].exists

\* The durable insert of (id, url) is accepted: no row for the id and none
\* for the url.
Insertable(id, url) ==
    /\ ~rows[id].exists
    /\ ~\E j \in Ids : rows[j].exists /\ rows[j].originalUrl = url

\* C15: a create that succeeds in the durable store returns provenance
\* "database" and the row, whether the cache mirror succeeds or fails; the
\* mirror never raises and the database breaker records a success only.
C15_MirrorUnobservable ==
    [][\A id \in ReqIds, url \in Urls : \A ok1, ok2 \in BOOLEAN :
          ( /\ lastOp'.op = "create"
            /\ ~StaysOpen("database")
            /\ Insertable(id, url)
            /\ CreateUrlWith(id, url, TRUE, ok1, ok2) )
          => /\ lastOp'.raised = "none"
             /\ lastOp'.source = "database"
             /\ lastOp'.url = url
             /\ rows'[id] = NewRow(url)
             /\ breakers'["database"] = onSuccess(checkState(breakers["database"], now))
             /\ mapping'[id] = (IF ok1 /\ ~StaysOpen("cache") THEN url ELSE mapping[id])]_vars

\* A create answered "database" whose mirror write did not reach the cache.
C15_Witness ==
    /\ lastOp.op = "create" /\ lastOp.source = "database" /\ lastOp.raised = "none"
    /\ lastOp.id \in ReqIds /\ rows[lastOp.id].exists
    /\ rows[lastOp.id].originalUrl = lastOp.url
    /\ mapping[lastOp.id] = Null

\* ------------------------------------------------------- breaker properties
\* The failures recorded by b since its last success or close that are not
\* older than the monitoring window at time t.
RecentFailures(b, t) ==
    Cardinality({i \in DOMAIN b.failures : b.failures[i] > t - b.config.monitoringWindow})

\* The last execute was the operation failure that opened breaker n, and its
\* retry time has not come.
JustOpened(n) ==
    /\ lastOp.op = "execute" /\ lastOp.source = "error"
    /\ breakers[n].state \in {"OPEN", "HALF_OPEN"}
    /\ breakers[n].successCount = 0
    /\ breakers[n].nextAttemptTime = breakers[n].lastFailureTime + breakers[n].config.timeout
    /\ now < breakers[n].nextAttemptTime

\* C16 (as claimed): the failure that brings the failures within the window to
\* failureThreshold while CLOSED opens the breaker, and the next execute
\* before nextAttemptTime does not invoke the operation: it returns the
\* fallback's result, or raises the open error when no fallback is given.
C16_OpensAndFailsFast ==
    [][\A n \in BreakerConfigs : \A opOk, hasFallback \in BOOLEAN :
          ExecuteWith(n, opOk, hasFallback)
          => /\ ( /\ breakers[n].state = "CLOSED" /\ ~opOk
                  /\ RecentFailures(breakers[n], now) + 1
                        >= breakers[n].config.failureThreshold )
                => (breakers'[n].state = "OPEN" /\ JustOpened(n)')
             /\ JustOpened(n)
                => /\ lastOp'.dbCalls = 0
                   /\ lastOp'.source = (IF hasFallback THEN "fallback" ELSE "open_error")]_vars

\* C16 (amended): the same, for the next execute before nextAttemptTime when
\* no health poll has succeeded since the breaker opened, i.e. the breaker is
\* still OPEN.
C16_OpensAndFailsFastUnlessPolled ==
    [][\A n \in BreakerConfigs : \A opOk, hasFallback \in BOOLEAN :
          ExecuteWith(n, opOk, hasFallback)
          => /\ ( /\ breakers[n].state = "CLOSED" /\ ~opOk
                  /\ RecentFailures(breakers[n], now) + 1
                        >= breakers[n].config.failureThreshold )
                => (breakers'[n].state = "OPEN" /\ JustOpened(n)')
             /\ (JustOpened(n) /\ breakers[n].state = "OPEN")
                => /\ lastOp'.dbCalls = 0
                   /\ lastOp'.source = (IF hasFallback THEN "fallback" ELSE "open_error")
                   /\ breakers'[n] = breakers[n]]_vars

\* An execute answered by the fallback of a breaker that failureThreshold
\* failures within the window have opened.
C16_Witness ==
    \E n \in DOMAIN breakers :
        /\ breakers[n].state = "OPEN"
        /\ lastOp.op = "execute" /\ lastOp.source = "fallback" /\ lastOp.dbCalls = 0
        /\ Len(breakers[n].failures) = breakers[n].config.failureThreshold
        /\ RecentFailures(breakers[n], now) = breakers[n].config.failureThreshold
        /\ now < breakers[n].nextAttemptTime

\* C17: failures older than the monitoring window do not count. A failure
\* opens a CLOSED breaker only if, with the failures older than the window
\* left out, at least failureThreshold remain; when all earlier failures are
\* older than the window the breaker stays CLOSED and keeps the new one only.
C17_OldFailuresDoNotCount ==
    [][\A n \in BreakerConfigs : \A hasFallback \in BOOLEAN :
          (ExecuteWith(n, FALSE, hasFallback) /\ breakers[n].state = "CLOSED")
          => LET b == breakers[n]
                 cutoff == now - b.config.monitoringWindow
             IN /\ breakers'[n].state = "OPEN"
                   => Cardinality({i \in DOMAIN b.failures : b.failures[i] >= cutoff}) + 1
                         >= b.config.failureThreshold
                /\ (\A i \in DOMAIN b.failures : b.failures[i] < cutoff)
                   => (breakers'[n].state = "CLOSED" /\ breakers'[n].failures = <<now>>)]_vars

\* A breaker still CLOSED after failureThreshold failures in a row, all but
\* the last one pruned from the window.
C17_Witness ==
    \E n \in DOMAIN breakers :
        /\ breakers[n].state = "CLOSED"
        /\ lastOp.op = "execute" /\ lastOp.source = "error"
        /\ breakers[n].failureCount >= breakers[n].config.failureThreshold
        /\ breakers[n].failures = <<now>>
        /\ now - breakers[n].config.monitoringWindow > 0

\* C18: an execute on an OPEN breaker whose nextAttemptTime has come moves it
\* to HALF_OPEN and runs the operation in the same call, with or without a
\* health check; before nextAttemptTime the breaker stays OPEN and the
\* operation is not run.
C18_ProbeOnElapsedTimeout ==
    [][\A n \in BreakerConfigs : \A opOk, hasFallback \in BOOLEAN :
          (ExecuteWith(n, opOk, hasFallback) /\ breakers[n].state = "OPEN")
          => LET b == breakers[n]
             IN IF now >= b.nextAttemptTime
                THEN /\ lastOp'.dbCalls = 1
                     /\ lastOp'.source = (IF opOk THEN "value" ELSE "error")
                     /\ ~breakers'[n].healthCheckTimer \/ ~opOk
                     /\ breakers'[n].state =
                          (IF ~opOk THEN "OPEN"
                           ELSE IF b.config.successThreshold <= 1 THEN "CLOSED"
                           ELSE "HALF_OPEN")
                     /\ breakers'[n].successCount =
                          (IF opOk /\ b.config.successThreshold > 1 THEN 1 ELSE 0)
                ELSE /\ lastOp'.dbCalls = 0
                     /\ lastOp'.source = (IF hasFallback THEN "fallback" ELSE "open_error")
                     /\ breakers'[n] = b]_vars

\* A breaker that has no health check, HALF_OPEN after the first successful
\* probe made once its retry time had come.
C18_Witness ==
    \E n \in DOMAIN breakers :
        /\ ~breakers[n].healthCheck
        /\ breakers[n].state = "HALF_OPEN" /\ breakers[n].successCount = 1
        /\ lastOp.op = "execute" /\ lastOp.source = "value" /\ lastOp.dbCalls = 1
        /\ now >= breakers[n].nextAttemptTime

\* C19: one operation failure in HALF_OPEN moves the breaker to OPEN at once,
\* with successCount 0 and nextAttemptTime = now + timeout, whatever
\* successCount was and however few failures the window holds.
C19_HalfOpenFailureReopens ==
    [][\A n \in BreakerConfigs : \A hasFallback \in BOOLEAN :
          ( /\ ExecuteWith(n, FALSE, hasFallback)
            /\ checkState(breakers[n], now).state = "HALF_OPEN" )
          => /\ lastOp'.source = "error" /\ lastOp'.dbCalls = 1
             /\ breakers'[n].state = "OPEN"
             /\ breakers'[n].successCount = 0
             /\ breakers'[n].nextAttemptTime = now + breakers[n].config.timeout]_vars

\* A breaker reopened by a failed probe: OPEN with fewer failures in the
\* window than failureThreshold.
C19_Witness ==
    \E n \in DOMAIN breakers :
        /\ breakers[n].state = "OPEN" /\ breakers[n].successCount = 0
        /\ lastOp.op = "execute" /\ lastOp.source = "error"
        /\ breakers[n].lastFailureTime = now
        /\ breakers[n].nextAttemptTime = now + breakers[n].config.timeout
        /\ Len(breakers[n].failures) < breakers[n].config.failureThreshold

\* C20: in HALF_OPEN the success that completes successThreshold successes in
\* a row closes the breaker and clears the failure window, the failure count
\* and the success count; an earlier success leaves it HALF_OPEN.
C20_ClosesAfterSuccessThreshold ==
    [][\A n \in BreakerConfigs : \A hasFallback \in BOOLEAN :
          ( /\ ExecuteWith(n, TRUE, hasFallback)
            /\ checkState(breakers[n], now).state = "HALF_OPEN" )
          => LET b == breakers[n]
                 k == (IF b.state = "HALF_OPEN" THEN lastOp.streak ELSE 0) + 1
             IN IF k >= b.config.successThreshold
                THEN /\ breakers'[n].state = "CLOSED"
                     /\ breakers'[n].failures = <<>>
                     /\ breakers'[n].failureCount = 0
                     /\ breakers'[n].successCount = 0
                ELSE breakers'[n].state = "HALF_OPEN"]_vars

\* C21: execute raises CircuitBreakerOpenError exactly when the breaker is
\* OPEN after the elapsed-time check and no fallback is given; the operation
\* is then not invoked and the breaker (state, failure window,
\* nextAttemptTime and every other field) is unchanged.
C21_OpenErrorExactlyWhenOpenNoFallback ==
    [][\A n \in BreakerConfigs : \A opOk, hasFallback \in BOOLEAN :
          ExecuteWith(n, opOk, hasFallback)
          => /\ (lastOp'.raised = "open")
                  <=> ( /\ breakers[n].state = "OPEN"
                        /\ now < breakers[n].nextAttemptTime
                        /\ ~hasFallback )
             /\ (lastOp'.raised = "open")
                  => /\ lastOp'.dbCalls = 0
                     /\ breakers'[n] = breakers[n]]_vars

\* An execute without fallback refused by an OPEN breaker whose retry time
\* has not come.
C21_Witness ==
    \E n \in DOMAIN breakers :
        /\ breakers[n].state = "OPEN" /\ now < breakers[n].nextAttemptTime
        /\ lastOp.op = "execute" /\ lastOp.id = n
        /\ lastOp.raised = "open" /\ lastOp.dbCalls = 0

\* C22: a success while CLOSED empties the failure window and the failure
\* count, so a failure while CLOSED that follows a success which forgave
\* failureThreshold-1 failures within the window leaves the breaker CLOSED,
\* with that one failure in the window.
C22_SuccessForgivesFailures ==
    [][\A n \in BreakerConfigs : \A opOk, hasFallback \in BOOLEAN :
          (ExecuteWith(n, opOk, hasFallback) /\ breakers[n].state = "CLOSED")
          => IF opOk
             THEN /\ breakers'[n].state = "CLOSED"
                  /\ breakers'[n].failures = <<>>
                  /\ breakers'[n].failureCount = 0
             ELSE (lastOp.op = "execute" /\ lastOp.source = "value")
                  => /\ breakers'[n].state = "CLOSED"
                     /\ breakers'[n].failures = <<now>>
                     /\ breakers'[n].failureCount = 1]_vars

\* A breaker CLOSED after failureThreshold-1 failures, one success and one
\* more failure, all of them within the monitoring window.
C22_Witness ==
    \E n \in DOMAIN breakers :
        /\ breakers[n].state = "CLOSED"
        /\ lastOp.op = "execute" /\ lastOp.source = "error"
        /\ lastOp.forgiven = breakers[n].config.failureThreshold - 1
        /\ breakers[n].failures = <<now>>
        /\ now - breakers[n].config.monitoringWindow < 0

\* C23: the failure that opens a breaker arms its health-check timer exactly
\* when it has a health check and a healthCheckInterval, and the callback
\* fires only while the timer is armed. A poll that settles healthy while the
\* breaker is OPEN moves it to HALF_OPEN at once, also before
\* nextAttemptTime, and disarms the timer; a poll that settles otherwise
\* leaves the breaker OPEN and the timer as it was; while the breaker stays
\* OPEN only destroy() disarms the timer.
C23_HealthPollPromotes ==
    [][\A n \in BreakerConfigs :
          n \in DOMAIN breakers
          => /\ (Execute(n) /\ lastOp'.dbCalls = 1 /\ breakers'[n].state = "OPEN")
                => breakers'[n].healthCheckTimer
                      = (breakers'[n].healthCheck
                         /\ breakers'[n].config.healthCheckInterval > 0)
             /\ ( /\ breakers[n].state = "OPEN" /\ breakers[n].healthCheckTimer
                  /\ breakers'[n].state = "OPEN" /\ ~Destroy(n) )
                => breakers'[n].healthCheckTimer
             /\ BreakerPoll(n) => breakers[n].healthCheckTimer
             /\ \A isHealthy \in BOOLEAN :
                  (breakers[n].state = "OPEN" /\ HealthPollSettledWith(n, isHealthy))
                  => breakers'[n] =
                       IF isHealthy
                       THEN [breakers[n] EXCEPT !.state = "HALF_OPEN", !.successCount = 0,
                                                !.healthCheckTimer = FALSE,
                                                !.healthCheckPending = FALSE]
                       ELSE [breakers[n] EXCEPT !.healthCheckPending = FALSE]]_vars

\* A breaker moved to HALF_OPEN by a healthy poll before its retry time, the
\* timer disarmed.
C23_Witness ==
    \E n \in DOMAIN breakers :
        /\ breakers[n].healthCheck
        /\ breakers[n].state = "HALF_OPEN" /\ breakers[n].successCount = 0
        /\ ~breakers[n].healthCheckTimer /\ ~breakers[n].healthCheckPending
        /\ lastOp.op = "execute" /\ lastOp.source = "error"
        /\ now < breakers[n].nextAttemptTime

\* C24: reset() in any state leaves the breaker CLOSED with the failure
\* window, the failure count and the success count cleared and the
\* health-check timer disarmed; destroy() in any state leaves the timer
\* disarmed and the rest of the breaker as it was.
C24_ResetAndDestroy ==
    [][\A n \in BreakerConfigs :
          /\ Reset(n)
             => /\ breakers'[n].state = "CLOSED"
                /\ breakers'[n].failures = <<>>
                /\ breakers'[n].failureCount = 0
                /\ breakers'[n].successCount = 0
                /\ ~breakers'[n].healthCheckTimer
          /\ Destroy(n)
             => /\ ~breakers'[n].healthCheckTimer
                /\ breakers'[n] = [breakers[n] EXCEPT !.healthCheckTimer = FALSE]]_vars

\* A breaker reset while it was OPEN and polled: CLOSED and cleared before
\* the retry time set by the failure that opened it.
C24_Witness ==
    \E n \in DOMAIN breakers :
        /\ lastOp.op = "reset" /\ lastOp.id = n
        /\ breakers[n].healthCheck
        /\ breakers[n].state = "CLOSED" /\ breakers[n].failures = <<>>
        /\ ~breakers[n].healthCheckTimer
        /\ breakers[n].nextAttemptTime = breakers[n].lastFailureTime + breakers[n].config.timeout
        /\ now < breakers[n].nextAttemptTime

\* C25: no data method of the cache store raises; when the connection is
\* unavailable or the Redis command fails, get gives null, set does nothing,
\* delete, exists, expire and healthCheck give false, increment gives 0, and
\* the stored keys are unchanged. The shortUrl and clicks helpers are these
\* methods on prefixed keys.
C25_CacheFailSoft ==
    [][\A id \in Ids : \A callOk \in BOOLEAN :
          LET down == ~(isConnected /\ callOk)
              Neutral == /\ lastOp'.raised = "none" /\ lastOp'.url = Null
                         /\ lastOp'.count = 0 /\ lastOp'.stored = FALSE
                         /\ mapping' = mapping /\ clicks' = clicks
              Soft(A) == A => (lastOp'.raised = "none" /\ (down => Neutral))
          IN /\ Soft(GetShortUrlWith(id, callOk))
             /\ \A url \in Urls : Soft(CacheShortUrlWith(id, url, callOk))
             /\ Soft(DeleteCachedShortUrlWith(id, callOk))
             /\ Soft(ExistsWith(id, callOk))
             /\ Soft(IncrementWith(id, callOk))
             /\ Soft(ExpireWith(id, callOk))
             /\ \A pong \in BOOLEAN : Soft(HealthCheckWith(callOk, pong))]_vars

\* An increment answered 0 by a connected store whose command failed, the
\* counter that was there untouched.
C25_Witness ==
    /\ lastOp.op = "increment" /\ lastOp.source = "failed"
    /\ lastOp.raised = "none" /\ lastOp.count = 0
    /\ isConnected
    /\ clicks[lastOp.id] > 0

\* C26: get-or-create is idempotent by name. A call for a name that an
\* earlier call was answered for returns the breaker that is in the catalog,
\* with the configuration and health check the first caller passed, whatever
\* this caller passes and whatever registry operations ran in between; no
\* registry operation removes or reconfigures a breaker.
C26_GetOrCreateIdempotent ==
    [][\A name \in BreakerNames : \A config \in BreakerConfigs \cup {Undefined} :
       \A hasHealthCheck \in BOOLEAN :
          ( /\ lastOp.op = "getCircuitBreaker" /\ lastOp.id = name
            /\ GetCircuitBreaker(name, config, hasHealthCheck) )
          => /\ lastOp'.source = "existing"
             /\ lastOp'.url = lastOp.url
             /\ lastOp'.stored = lastOp.stored
             /\ breakers' = breakers]_vars

\* UrlController.createShortUrl behind asyncErrorHandler and errorHandler: the
\* HTTP status sent for what the creation returned or threw. No error raised
\* on this path carries a status, so errorHandler sends 500.
CreateStatus(raised) == IF raised # "none" THEN 500 ELSE 201

\* C27: with the database breaker OPEN a URL-creation request is answered
\* 503 (service unavailable, retry later) and not with a created short URL.
C27_CreateUnavailableWhenOpen ==
    [][\A id \in ReqIds : \A url \in Urls : \A dbOk, ok1, ok2 \in BOOLEAN :
          ( /\ lastOp'.op = "create"
            /\ StaysOpen("database")
            /\ CreateUrlWith(id, url, dbOk, ok1, ok2) )
          => /\ CreateStatus(lastOp'.raised) = 503
             /\ lastOp'.source # "cache_fallback"]_vars

\* A cycle begins at call site s in this step.
CycleBegins(s) == cyc'[s].pc = "list" /\ cyc[s] # cyc'[s]

\* C28: start() of a Reconciler that is not running begins one cycle at once
\* and arms the timer; each timer callback begins one cycle; while the
\* Reconciler is running no step begins an immediate cycle or arms a timer,
\* so start() then begins nothing.
C28_StartOnceThenPeriodic ==
    [][/\ (start /\ ~isRunning)
          => (CycleBegins("initial") /\ syncInterval' /\ isRunning' /\ runs' = runs + 1)
       /\ CycleBegins("initial")
          => (~isRunning /\ ~syncInterval /\ ~CycleBegins("periodic") /\ runs' = runs + 1)
       /\ CycleBegins("periodic")
          => (TimerTick /\ syncInterval /\ ~CycleBegins("initial") /\ runs' = runs + 1)
       /\ (syncInterval' /\ ~syncInterval) => (start /\ ~isRunning)
       /\ isRunning' = syncInterval']_vars

\* A running Reconciler whose immediate cycle has finished and whose timer
\* has begun a periodic cycle.
C28_Witness ==
    /\ isRunning /\ syncInterval
    /\ cyc["initial"].pc = "done"
    /\ cyc["periodic"].pc = "read"
    /\ runs = 2

\* C29: after stop() the timer begins no cycle, and a cycle that is in
\* flight is not discarded: it goes on until it is done, its transaction
\* committed or rolled back by processBatch.
C29_StopLetsCycleFinish ==
    [][/\ CycleBegins("periodic") => (syncInterval /\ isRunning)
       /\ \A s \in Slots :
            (~isRunning /\ cyc[s].pc \notin {"idle", "done"})
            => cyc'[s].pc # "idle"]_vars

\* C30: keys of a failed batch are retried. While cycles keep running and
\* the stores are eventually available, a pending counter of a shortId that
\* has a row is eventually removed from the cache with every increment
\* recorded for it added to the durable clickCount.
C30_PendingEventuallyFlushed ==
    \A id \in Ids :
        (HasRow(rows, id) /\ clicks[id] > 0)
            ~> (clicks[id] = 0 /\ ClickCount(rows, id) >= recorded[id])

\* C31: with no crash and no store failure each increment is added to the
\* durable clickCount once, so the durable clickCount of a shortId never
\* exceeds the number of increments recorded for it.
C31_NoDoubleCountWithoutCrash ==
    ~faulted => \A id \in Ids : ClickCount(rows, id) <= recorded[id]

\* C32: at most one Reconciler cycle is in progress at any time: the
\* immediate run and the interval callbacks never overlap.
C32_OneCycleAtATime ==
    Cardinality({s \in Slots : cyc[s].pc \notin {"idle", "done"}}) <= 1

\* C33: HALF_OPEN is entered only from OPEN: a health poll that settles
\* after the breaker has left OPEN changes nothing of the breaker but the
\* poll being over.
C33_HalfOpenOnlyFromOpen ==
    [][\A n \in BreakerConfigs :
          n \in DOMAIN breakers
          => /\ (breakers'[n].state = "HALF_OPEN" /\ breakers[n].state # "HALF_OPEN")
                => breakers[n].state = "OPEN"
             /\ (breakers[n].state # "OPEN" /\ BreakerPollSettled(n))
                => breakers'[n] = [breakers[n] EXCEPT !.healthCheckPending = FALSE]]_vars

\* C34: the completion of an operation that was admitted before the breaker
\* became HALF_OPEN does not count toward successThreshold: settling with
\* success while the breaker is HALF_OPEN, it leaves the state and
\* successCount as they are.
C34_OnlyProbesCloseTheBreaker ==
    [][\A n \in BreakerConfigs :
          ( /\ n \in DOMAIN breakers
            /\ breakers[n].state = "HALF_OPEN"
            /\ breakers[n].admitted \notin {"none", "HALF_OPEN"}
            /\ CompleteWith(n, TRUE) )
          => /\ breakers'[n].state = "HALF_OPEN"
             /\ breakers'[n].successCount = breakers[n].successCount]_vars

\* C35: while the cache store is disconnected no step trips the cache
\* breaker: it stays CLOSED with an empty failure window, no request ends in
\* the open error, the only change of the cache breaker is a larger count of
\* recorded successes, and every retrieval records at least one.
C35_DisconnectNeverTripsCache ==
    [][~isConnected
       => /\ breakers'["cache"].state = "CLOSED"
          /\ breakers'["cache"].failures = <<>>
          /\ breakers'["cache"].failureCount = 0
          /\ lastOp'.raised # "open"
          /\ breakers'["cache"].successCount >= breakers["cache"].successCount
          /\ breakers'["cache"] =
                [breakers["cache"] EXCEPT !.successCount = breakers'["cache"].successCount]
          /\ (lastOp'.op = "get" /\ \E id \in ReqIds : GetOriginalUrl(id))
             => breakers'["cache"].successCount > breakers["cache"].successCount]_vars

\* A creation that took the cache fallback while the store was disconnected:
\* nothing was written, the cache breaker recorded a success and is CLOSED.
C35_Witness ==
    /\ ~isConnected
    /\ lastOp.op = "create"
    /\ lastOp.source = "cache_fallback"
    /\ ~lastOp.stored
    /\ mapping[lastOp.id] = Null
    /\ breakers["cache"].state = "CLOSED"
    /\ breakers["cache"].successCount > 0

\* C36: a cycle removes a pending counter from the cache only when the
\* counter's id has a row in the durable store.
C36_DeleteOnlyCountedClicks ==
    [][\A id \in Ids :
          (clicks[id] > 0 /\ clicks'[id] = 0) => HasRow(rows, id)]_vars

\* C37: a createShortUrl request made while the database breaker is OPEN
\* does not touch the durable store and ends in the cache-fallback creation.
C37_RequestsOnlyThroughBreaker ==
    [][( /\ StaysOpen("database")
         /\ lastOp'.op = "createShortUrl"
         /\ \E url \in Urls : CreateShortUrl(url) )
          => /\ lastOp'.dbCalls = 0
             /\ lastOp'.raised = "none"
             /\ lastOp'.source = "cache_fallback"]_vars

\* C38: a breaker that is OPEN eventually becomes HALF_OPEN and eventually
\* CLOSED, and a HALF_OPEN one eventually CLOSED, when execute keeps being
\* called, time passes and the operations end up succeeding; with and
\* without a health check.
C38_OpenBreakerRecovers ==
    \A n \in BreakerConfigs :
        /\ (n \in DOMAIN breakers /\ breakers[n].state = "OPEN")
              ~> (n \in DOMAIN breakers /\ breakers[n].state = "HALF_OPEN")
        /\ (n \in DOMAIN breakers /\ breakers[n].state = "OPEN")
              ~> (n \in DOMAIN breakers /\ breakers[n].state = "CLOSED")
        /\ (n \in DOMAIN breakers /\ breakers[n].state = "HALF_OPEN")
              ~> (n \in DOMAIN breakers /\ breakers[n].state = "CLOSED")

\* A breaker without a health check that was opened and, the retry time
\* over, was closed again by the success of an attempted operation.
C38_Witness ==
    \E n \in DOMAIN breakers :
        /\ ~breakers[n].healthCheck
        /\ breakers[n].state = "CLOSED"
        /\ breakers[n].nextAttemptTime > 0
        /\ now >= breakers[n].nextAttemptTime
        /\ lastOp.op = "complete"
        /\ lastOp.source = "value"

\* C39: the health-check timer of a breaker is armed only while the breaker
\* is OPEN, and only on a breaker that has a health check and an interval.
C39_TimerOnlyWhileOpen ==
    \A n \in DOMAIN breakers :
        breakers[n].healthCheckTimer
        => /\ breakers[n].state = "OPEN"
           /\ breakers[n].healthCheck
           /\ breakers[n].config.healthCheckInterval > 0

\* reset() closed a breaker whose timer had fired (the poll is still
\* awaited): the timer is gone.
C39_Witness ==
    \E n \in DOMAIN breakers :
        /\ breakers[n].healthCheck
        /\ breakers[n].healthCheckPending
        /\ breakers[n].state = "CLOSED"
        /\ ~breakers[n].healthCheckTimer
        /\ lastOp.op = "reset"

\* C40: a CLOSED breaker holds fewer than failureThreshold timestamps in its
\* failure window.
C40_ClosedWindowBelowThreshold ==
    \A n \in DOMAIN breakers :
        breakers[n].state = "CLOSED"
        => Len(breakers[n].failures) < breakers[n].config.failureThreshold

\* The failure of an operation in flight left a CLOSED breaker one failure
\* short of its threshold.
C40_Witness ==
    \E n \in DOMAIN breakers :
        /\ breakers[n].state = "CLOSED"
        /\ Len(breakers[n].failures) = breakers[n].config.failureThreshold - 1
        /\ lastOp.op = "complete"
        /\ lastOp.source = "error"
====
